---------------------------- MODULE Spec2Model ----------------------------
(***************************************************************************)
(* PathDesigner CAM back end: toolpath generation, peck drilling, BLF      *)
(* nesting, placement validation, feature classification and the machine   *)
(* code endpoints, modelled from src/backend/nodes and src/backend/main.py. *)
(*                                                                         *)
(* Units.  The source computes with floats in millimetres.  The model uses *)
(* exact integers: Z values (depths, tab heights) are in tenths of a       *)
(* millimetre, so that PENETRATION_MARGIN = 0.3 mm is the integer 3; XY    *)
(* values are in an arbitrary integer length unit.  Quotients the source   *)
(* forms (tab spacing, ceil of a ratio) are compared after multiplying out *)
(* the denominators, so no rounding is introduced by the model.            *)
(*                                                                         *)
(* Every handler of the back end is a synchronous function of its request. *)
(* The state is the request being served (call) and its response (result); *)
(* history records, for each produced toolpath, which input it came from.  *)
(* Reply hands the response back and the server is idle again: no handler  *)
(* keeps state between requests.  auto_nesting is modelled one loop        *)
(* iteration at a time; nesting holds its local variables and, once it has *)
(* returned, the response of its endpoint.                                 *)
(***************************************************************************)
EXTENDS Integers, Sequences, FiniteSets

VARIABLES call, result, history, nesting, llm, db

vars == <<call, result, history, nesting, llm, db>>

(***************************************************************************)
(* Bounds of the model.                                                    *)
(***************************************************************************)
MaxDepth == 4
MaxContours == 2
MaxTabs == 2

(***************************************************************************)
(* Program constants.                                                      *)
(***************************************************************************)
PENETRATION_MARGIN == 3

(***************************************************************************)
(* Generic helpers.                                                        *)
(***************************************************************************)
Max2(a, b) == IF a >= b THEN a ELSE b

Min2(a, b) == IF a <= b THEN a ELSE b

Abs(a) == IF a >= 0 THEN a ELSE -a

\* math.ceil(a / b) for b > 0 (integer floor division rounds down).
Ceil(a, b) == -((-a) \div b)

\* math.hypot(dx, dy); the model's paths only have segments whose length is
\* an integer (axis-parallel, or the 3-4-5 triangle).
Hypot(dx, dy) == CHOOSE r \in 0..(Abs(dx) + Abs(dy)) : r * r = dx * dx + dy * dy

\* Python's None (a missing dict entry, an unset optional field).
None == [none |-> TRUE]

\* All sequences over S of length 0..n.
SeqUpTo(S, n) == UNION {[1..k -> S] : k \in 0..n}

\* Python's sorted(): a stable sort.  before[i][j] is "key(s[i]) < key(s[j])".
\* The element at input position i lands after every element with a smaller
\* key and after every earlier element with an equal key.
SortedWith(s, before) ==
    LET n == Len(s)
        rank(i) == Cardinality({j \in 1..n :
                       \/ before[j][i]
                       \/ (~before[i][j] /\ j < i)})
    IN  [p \in 1..n |-> s[CHOOSE i \in 1..n : rank(i) = p - 1]]

(***************************************************************************)
(* toolpath_gen.py: tabs.                                                  *)
(***************************************************************************)
\* Cumulative distances along the path (a sequence as long as coords).
RECURSIVE Distances(_)
Distances(coords) ==
    IF Len(coords) = 0 THEN <<>>
    ELSE IF Len(coords) = 1 THEN <<0>>
    ELSE LET n == Len(coords)
             prev == Distances(SubSeq(coords, 1, n - 1))
             dx == coords[n][1] - coords[n - 1][1]
             dy == coords[n][2] - coords[n - 1][2]
         IN  Append(prev, prev[n - 1] + Hypot(dx, dy))

\* _distance_to_index with both sides of "d >= target" multiplied by scale:
\* the first 0-based index i with distances[i] * scale >= target, else the
\* last index.
DistanceToIndex(distances, scale, target) ==
    LET hits == {i \in 1..Len(distances) : distances[i] * scale >= target}
    IN  IF hits = {} THEN Len(distances) - 1
        ELSE (CHOOSE i \in hits : \A j \in hits : i <= j) - 1

TabZMutant(tab_height, z_depth) == z_depth - tab_height

\* _tab_z
TabZ(tab_height, z_depth) == z_depth + tab_height

TabSegmentAtMutant(distances, tabs_settings, z_depth, t) ==
    LET n_points == Len(distances)
        total_length == distances[n_points]
        scale == 2 * tabs_settings.count
        center_dist == total_length * (2 * t + 1)
        half_width == tabs_settings.count * tabs_settings.width
        start_dist == center_dist - half_width
        end_dist == center_dist + half_width
        start_idx == DistanceToIndex(distances, scale, Max2(0, start_dist))
        end_idx0 == DistanceToIndex(distances, scale,
                                    Min2(total_length * scale, end_dist))
        end_idx == IF end_idx0 <= start_idx THEN start_idx + 1 ELSE end_idx0
    IN  [start_index |-> start_idx, end_index |-> end_idx,
         z_tab |-> TabZ(tabs_settings.height, z_depth)]

\* One iteration t of the loop of _compute_tabs.  tab_spacing is
\* total_length / count and the half width is width / 2; every distance is
\* multiplied by 2 * count.
TabSegmentAt(distances, tabs_settings, z_depth, t) ==
    LET n_points == Len(distances)
        total_length == distances[n_points]
        scale == 2 * tabs_settings.count
        center_dist == total_length * (2 * t + 1)
        half_width == tabs_settings.count * tabs_settings.width
        start_dist == center_dist - half_width
        end_dist == center_dist + half_width
        start_idx == DistanceToIndex(distances, scale, Max2(0, start_dist))
        end_idx0 == DistanceToIndex(distances, scale,
                                    Min2(total_length * scale, end_dist))
        end_idx == IF end_idx0 <= start_idx
                   THEN Min2(start_idx + 1, n_points - 1)
                   ELSE end_idx0
    IN  [start_index |-> start_idx, end_index |-> end_idx,
         z_tab |-> TabZ(tabs_settings.height, z_depth)]

ComputeTabsMutant(coords, tabs_settings, z_depth) ==
    IF Len(coords) < 2 \/ tabs_settings.count <= 0 THEN <<>>
    ELSE LET distances == Distances(coords)
         IN  IF distances[Len(coords)] <= 0 THEN <<>>
             ELSE [t \in 1..(tabs_settings.count - 1) |->
                      TabSegmentAt(distances, tabs_settings, z_depth, t - 1)]

\* _compute_tabs
ComputeTabs(coords, tabs_settings, z_depth) ==
    IF Len(coords) < 2 \/ tabs_settings.count <= 0 THEN <<>>
    ELSE LET distances == Distances(coords)
         IN  IF distances[Len(coords)] <= 0 THEN <<>>
             ELSE [t \in 1..tabs_settings.count |->
                      TabSegmentAt(distances, tabs_settings, z_depth, t - 1)]

(***************************************************************************)
(* toolpath_gen.py: Z step-down.                                           *)
(***************************************************************************)
NumPassesMutant(total_depth, depth_per_pass) == total_depth \div depth_per_pass

\* num_passes = math.ceil(total_depth / depth_per_pass)
NumPasses(total_depth, depth_per_pass) == Ceil(total_depth, depth_per_pass)

PassZMutant(pass_number, num_passes, total_depth, depth_per_pass) ==
    total_depth - (pass_number * depth_per_pass)

\* The z_depth of pass pass_number out of num_passes.
PassZ(pass_number, num_passes, total_depth, depth_per_pass) ==
    IF pass_number = num_passes
    THEN -PENETRATION_MARGIN
    ELSE total_depth - (pass_number * depth_per_pass)

\* _compute_passes
ComputePasses(coords, depth_per_pass, total_depth, tabs_settings) ==
    LET num_passes == NumPasses(total_depth, depth_per_pass)
    IN  [i \in 1..num_passes |->
            LET is_final == (i = num_passes)
                z_depth == PassZ(i, num_passes, total_depth, depth_per_pass)
            IN  [pass_number |-> i,
                 z_depth |-> z_depth,
                 path |-> coords,
                 tabs |-> IF is_final /\ tabs_settings.enabled
                          THEN ComputeTabs(coords, tabs_settings, z_depth)
                          ELSE <<>>]]

(***************************************************************************)
(* toolpath_gen.py: generate_toolpath.                                     *)
(***************************************************************************)
\* key=lambda c: (0 if c.type == "interior" else 1)
ContourKey(c) == IF c.type = "interior" THEN 0 ELSE 1

ContourBefore(a, b) == ContourKey(a) < ContourKey(b)

SortContoursMutant(contours) == contours

\* sorted(contours, key=...): interior first, then exterior.
SortContours(contours) ==
    SortedWith(contours,
               [i \in 1..Len(contours) |->
                   [j \in 1..Len(contours) |->
                       ContourBefore(contours[i], contours[j])]])

\* The toolpaths of generate_toolpath, one per contour in sorted order.
GenerateToolpathResult(contour_result, settings) ==
    LET sorted_contours == SortContours(contour_result.contours)
    IN  [k \in 1..Len(sorted_contours) |->
            [operation_id |-> contour_result.object_id,
             passes |-> ComputePasses(sorted_contours[k].coords,
                                      settings.depth_per_pass,
                                      settings.total_depth,
                                      settings.tabs),
             settings |-> None]]

\* For each produced toolpath, the id of the contour it was cut from (no
\* assignment is involved: 0).
GenerateToolpathHistory(contour_result) ==
    LET sorted_contours == SortContours(contour_result.contours)
    IN  [k \in 1..Len(sorted_contours) |->
            [assignment |-> 0, contour |-> sorted_contours[k].id]]

(***************************************************************************)
(* geometry_utils.py: transform_coords.  Placement rotations of the model  *)
(* are the multiples of 90 degrees, which map integers to integers; the    *)
(* rounding to 4 decimals then changes nothing.                            *)
(***************************************************************************)
\* One point rotated counter-clockwise by angle degrees about (cx, cy).
RotatePoint(p, angle, cx, cy) ==
    LET rx == p[1] - cx
        ry == p[2] - cy
    IN  CASE angle = 90 -> <<cx - ry, cy + rx>>
          [] angle = 180 -> <<cx - rx, cy - ry>>
          [] angle = 270 -> <<cx + ry, cy - rx>>
          [] OTHER -> p

\* Polygon(coords).exterior.coords: the ring is closed when it is not.
CloseRing(coords) ==
    IF coords[1] = coords[Len(coords)] THEN coords ELSE Append(coords, coords[1])

\* rotate_coords
RotateCoords(coords, angle, cx, cy) ==
    IF angle = 0 THEN coords
    ELSE LET ring == CloseRing(coords)
         IN  [i \in 1..Len(ring) |-> RotatePoint(ring[i], angle, cx, cy)]

TransformCoordsMutant(coords, rotation, rot_cx, rot_cy, dx, dy) ==
    LET rotated ==
            IF rotation # 0
            THEN IF Len(coords) >= 3
                 THEN RotateCoords(coords, rotation, 0, 0)
                 ELSE [i \in 1..Len(coords) |->
                          RotatePoint(coords[i], rotation, 0, 0)]
            ELSE coords
    IN  [i \in 1..Len(rotated) |-> <<rotated[i][1] + dx, rotated[i][2] + dy>>]

\* transform_coords
TransformCoords(coords, rotation, rot_cx, rot_cy, dx, dy) ==
    LET rotated ==
            IF rotation # 0
            THEN IF Len(coords) >= 3
                 THEN RotateCoords(coords, rotation, rot_cx, rot_cy)
                 ELSE [i \in 1..Len(coords) |->
                          RotatePoint(coords[i], rotation, rot_cx, rot_cy)]
            ELSE coords
    IN  [i \in 1..Len(rotated) |-> <<rotated[i][1] + dx, rotated[i][2] + dy>>]

(***************************************************************************)
(* drill_toolpath.py                                                       *)
(***************************************************************************)
PENETRATION_MARGIN_DRILL == 3

DrillZMutant(pass_number, num_pecks, total_depth, depth_per_peck) ==
    IF pass_number = num_pecks
    THEN -total_depth
    ELSE -(pass_number * depth_per_peck)

\* The z_depth of peck pass_number out of num_pecks.
DrillZ(pass_number, num_pecks, total_depth, depth_per_peck) ==
    IF pass_number = num_pecks
    THEN -(total_depth + PENETRATION_MARGIN_DRILL)
    ELSE -(pass_number * depth_per_peck)

\* generate_drill_toolpath
GenerateDrillToolpath(center, total_depth, depth_per_peck) ==
    LET num_pecks == Ceil(total_depth, depth_per_peck)
    IN  [i \in 1..num_pecks |->
            [pass_number |-> i,
             z_depth |-> DrillZ(i, num_pecks, total_depth, depth_per_peck),
             path |-> <<center>>,
             tabs |-> <<>>]]

(***************************************************************************)
(* pocket_toolpath.py, for the pockets of the model: axis-parallel         *)
(* rectangles.  A rectangle is <<minx, miny, maxx, maxy>>; buffering it by *)
(* -r with mitre joins moves each side inwards by r.  The model lists a    *)
(* ring from its lower left corner, counter-clockwise; the corner the      *)
(* geometry library starts from is not fixed by the source.                *)
(***************************************************************************)
MinOf(S) == CHOOSE m \in S : \A x \in S : m <= x

MaxOf(S) == CHOOSE m \in S : \A x \in S : m >= x

\* polygon.bounds
Bounds(coords) ==
    LET xs == {coords[i][1] : i \in 1..Len(coords)}
        ys == {coords[i][2] : i \in 1..Len(coords)}
    IN  <<MinOf(xs), MinOf(ys), MaxOf(xs), MaxOf(ys)>>

\* Twice the signed area of the ring (shoelace formula).
RECURSIVE Area2(_, _)
Area2(coords, i) ==
    IF i >= Len(coords) THEN 0
    ELSE coords[i][1] * coords[i + 1][2] - coords[i + 1][1] * coords[i][2]
         + Area2(coords, i + 1)

\* not polygon.is_empty and polygon.is_valid, for the model's point lists
\* (rectangles and collinear lists): the ring encloses a non-zero area.
PolygonUsable(coords) == Area2(CloseRing(coords), 1) # 0

Inset(rect, r) == <<rect[1] + r, rect[2] + r, rect[3] - r, rect[4] - r>>

\* not current.is_empty and current.area > 0
RectNonEmpty(rect) == rect[1] < rect[3] /\ rect[2] < rect[4]

RectRing(rect) ==
    << <<rect[1], rect[2]>>, <<rect[3], rect[2]>>, <<rect[3], rect[4]>>,
       <<rect[1], rect[4]>>, <<rect[1], rect[2]>> >>

\* step = tool_diameter * stepover; stepover is stepover2 / 2.
PocketStep(tool_diameter, stepover2) == (tool_diameter * stepover2) \div 2

\* generate_pocket_contour_parallel: one ring per inward offset, the first
\* by half the tool diameter, each next one by step more.
RECURSIVE ContourParallelFrom(_, _)
ContourParallelFrom(current, step) ==
    IF ~RectNonEmpty(current) THEN <<>>
    ELSE <<RectRing(current)>> \o ContourParallelFrom(Inset(current, step), step)

GeneratePocketContourParallel(rect, tool_diameter, stepover2) ==
    ContourParallelFrom(Inset(rect, tool_diameter \div 2),
                        PocketStep(tool_diameter, stepover2))

\* generate_pocket_raster: scan lines at y = miny + step/2 + j*step while
\* y <= maxy - step/2 (+0.001, below the model's resolution), alternating
\* direction.  Twice the y values are compared, so step/2 stays an integer.
RECURSIVE RasterFrom(_, _, _, _)
RasterFrom(inset, y2, step, direction) ==
    IF y2 > 2 * inset[4] - step THEN <<>>
    ELSE LET y == y2 \div 2
             seg == IF direction = 1
                    THEN << <<inset[1], y>>, <<inset[3], y>> >>
                    ELSE << <<inset[3], y>>, <<inset[1], y>> >>
         IN  <<seg>> \o RasterFrom(inset, y2 + 2 * step, step, -direction)

GeneratePocketRaster(rect, tool_diameter, stepover2) ==
    LET step == PocketStep(tool_diameter, stepover2)
        inset == Inset(rect, tool_diameter \div 2)
    IN  IF ~RectNonEmpty(inset) THEN <<>>
        ELSE RasterFrom(inset, 2 * inset[2] + step, step, 1)

(***************************************************************************)
(* toolpath_gen.py: generate_toolpath_from_operations.                     *)
(* A request is a record: assignments, detected (operations) and sheet     *)
(* (materials) are sequences, placements is a sequence, object_origins and *)
(* bounding_boxes are functions on the object ids they hold (dicts).       *)
(***************************************************************************)
\* {key(e): e for e in seq}.get(k): the last element with that key.
LastIndex(S) == IF S = {} THEN 0 ELSE MaxOf(S)

OpLookup(detected, operation_id) ==
    LET i == LastIndex({j \in 1..Len(detected) :
                           detected[j].operation_id = operation_id})
    IN  IF i = 0 THEN None ELSE detected[i]

MatLookup(materials, material_id) ==
    LET i == LastIndex({j \in 1..Len(materials) :
                           materials[j].material_id = material_id})
    IN  IF i = 0 THEN None ELSE materials[i]

PlcLookup(placements, object_id) ==
    LET i == LastIndex({j \in 1..Len(placements) :
                           placements[j].object_id = object_id})
    IN  IF i = 0 THEN None ELSE placements[i]

\* Tuples of integers compared as Python compares them.
RECURSIVE TupleLess(_, _)
TupleLess(a, b) ==
    IF Len(a) = 0 \/ Len(b) = 0 THEN Len(a) < Len(b)
    ELSE IF a[1] # b[1] THEN a[1] < b[1]
    ELSE TupleLess(Tail(a), Tail(b))

\* _placement_sort_key: (y_offset, x_offset, order), or (inf, inf, order)
\* when the object of the assignment's operation has no placement.  The
\* leading 0/1 stands for "finite"/"inf".  An operation id that is not
\* detected maps to the object id "", which no placement of the model has.
PlacementSortKey(req, a) ==
    LET op == OpLookup(req.detected, a.operation_id)
        plc == IF op = None THEN None
               ELSE PlcLookup(req.placements, op.object_id)
    IN  IF plc # None
        THEN <<0, plc.y_offset, 0, plc.x_offset, a.order>>
        ELSE <<1, 0, 1, 0, a.order>>

OrderSortKey(req, a) == <<a.order>>

AssignmentSortKeyMutant(req, a) ==
    LET op == OpLookup(req.detected, a.operation_id)
        plc == IF op = None THEN None
               ELSE PlcLookup(req.placements, op.object_id)
    IN  IF plc # None
        THEN <<0, plc.x_offset, 0, plc.y_offset, a.order>>
        ELSE <<1, 0, 1, 0, a.order>>

\* The sort key in force: by placement when placements is non-empty, else
\* by order.
AssignmentSortKey(req, a) ==
    IF Len(req.placements) > 0
    THEN PlacementSortKey(req, a)
    ELSE OrderSortKey(req, a)

\* sorted_assignments, as the sequence of the assignments' input positions.
SortedAssignments(req) ==
    SortedWith([i \in 1..Len(req.assignments) |-> i],
               [i \in 1..Len(req.assignments) |->
                   [j \in 1..Len(req.assignments) |->
                       TupleLess(AssignmentSortKey(req, req.assignments[i]),
                                 AssignmentSortKey(req, req.assignments[j]))]])

CuttingDepthMutant(detected_op, material) == detected_op.geometry.depth

\* total_depth: the sheet thickness for a contour operation, else the
\* detected depth.
CuttingDepth(detected_op, material) ==
    IF detected_op.operation_type = "contour"
    THEN material.thickness
    ELSE detected_op.geometry.depth

PocketPassesMutant(pocket_rings, total_depth, depth_per_pass) ==
    LET num_z_passes == Ceil(total_depth, depth_per_pass)
        n_rings == Len(pocket_rings)
    IN  [k \in 1..(num_z_passes * n_rings) |->
            LET z_i == (k - 1) % num_z_passes
                ring == pocket_rings[((k - 1) \div num_z_passes) + 1]
            IN  [pass_number |-> k,
                 z_depth |-> IF z_i = num_z_passes - 1
                             THEN -PENETRATION_MARGIN
                             ELSE total_depth - ((z_i + 1) * depth_per_pass),
                 path |-> ring,
                 tabs |-> <<>>]]

\* The pocket passes: every ring at every Z level.
PocketPasses(pocket_rings, total_depth, depth_per_pass) ==
    LET num_z_passes == Ceil(total_depth, depth_per_pass)
        n_rings == Len(pocket_rings)
    IN  [k \in 1..(num_z_passes * n_rings) |->
            LET z_i == (k - 1) \div n_rings
                ring == pocket_rings[((k - 1) % n_rings) + 1]
            IN  [pass_number |-> k,
                 z_depth |-> IF z_i = num_z_passes - 1
                             THEN -PENETRATION_MARGIN
                             ELSE total_depth - ((z_i + 1) * depth_per_pass),
                 path |-> ring,
                 tabs |-> <<>>]]

SkipsMutant(req, a) ==
    \/ OpLookup(req.detected, a.operation_id) = None
    \/ MatLookup(req.sheet, a.material_id) = None

\* The three "continue" guards at the head of the loop body.
Skips(req, a) ==
    \/ ~a.enabled
    \/ OpLookup(req.detected, a.operation_id) = None
    \/ MatLookup(req.sheet, a.material_id) = None

\* The body of the loop for one assignment that is not skipped: the
\* toolpaths it appends, each with the id of the contour it was cut from.
AssignmentToolpaths(req, a) ==
    LET detected_op == OpLookup(req.detected, a.operation_id)
        material == MatLookup(req.sheet, a.material_id)
        obj == detected_op.object_id
        placement == PlcLookup(req.placements, obj)
        origin == IF obj \in DOMAIN req.object_origins
                  THEN req.object_origins[obj] ELSE <<0, 0>>
        place_x == IF placement # None THEN placement.x_offset ELSE 0
        place_y == IF placement # None THEN placement.y_offset ELSE 0
        rotation == IF placement # None THEN placement.rotation ELSE 0
        dx == -origin[1] + place_x
        dy == -origin[2] + place_y
        contours == detected_op.geometry.contours
        all_coords == UNION {{contours[i].coords[j] :
                                j \in 1..Len(contours[i].coords)} :
                             i \in 1..Len(contours)}
        all_cx == {c[1] : c \in all_coords}
        all_cy == {c[2] : c \in all_coords}
        rot_cx == IF obj \in DOMAIN req.bounding_boxes
                  THEN origin[1] + req.bounding_boxes[obj].x \div 2
                  ELSE IF all_cx # {}
                       THEN (MinOf(all_cx) + MaxOf(all_cx)) \div 2 ELSE 0
        rot_cy == IF obj \in DOMAIN req.bounding_boxes
                  THEN origin[2] + req.bounding_boxes[obj].y \div 2
                  ELSE IF all_cy # {}
                       THEN (MinOf(all_cy) + MaxOf(all_cy)) \div 2 ELSE 0
        total_depth == CuttingDepth(detected_op, material)
        Made(passes, contour_id) ==
            [toolpath |-> [operation_id |-> a.operation_id,
                           passes |-> passes,
                           settings |-> a.settings],
             contour |-> contour_id]
    IN  CASE detected_op.operation_type = "drill" ->
               IF Len(contours) = 0 THEN <<>>
               ELSE LET contour == contours[1]
                        n == Len(contour.coords)
                        SumX[i \in 0..n] ==
                            IF i = 0 THEN 0 ELSE SumX[i - 1] + contour.coords[i][1]
                        SumY[i \in 0..n] ==
                            IF i = 0 THEN 0 ELSE SumY[i - 1] + contour.coords[i][2]
                        cx == SumX[n] \div n
                        cy == SumY[n] \div n
                        center == TransformCoords(<< <<cx, cy>> >>, rotation,
                                                  rot_cx, rot_cy, dx, dy)[1]
                    IN  <<Made(GenerateDrillToolpath(center, total_depth,
                                                     a.settings.depth_per_peck),
                               contour.id)>>
          [] detected_op.operation_type = "pocket" ->
               IF Len(contours) = 0 THEN <<>>
               ELSE IF Len(contours[1].coords) < 3 THEN <<>>
               ELSE LET pocket_coords ==
                            TransformCoords(contours[1].coords, rotation,
                                            rot_cx, rot_cy, dx, dy)
                    IN  IF ~PolygonUsable(pocket_coords) THEN <<>>
                        ELSE LET rect == Bounds(pocket_coords)
                                 tool_dia == a.settings.tool_diameter
                                 stepover2 == a.settings.pocket_stepover2
                                 pocket_rings ==
                                     IF a.settings.pocket_pattern = "raster"
                                     THEN GeneratePocketRaster(rect, tool_dia,
                                                               stepover2)
                                     ELSE GeneratePocketContourParallel(
                                              rect, tool_dia, stepover2)
                             IN  <<Made(PocketPasses(pocket_rings, total_depth,
                                                     a.settings.depth_per_pass),
                                        contours[1].id)>>
          [] OTHER ->
               LET sorted_contours == SortContours(contours)
               IN  [k \in 1..Len(sorted_contours) |->
                       Made(ComputePasses(
                                TransformCoords(sorted_contours[k].coords,
                                                rotation, rot_cx, rot_cy, dx, dy),
                                a.settings.depth_per_pass,
                                total_depth,
                                a.settings.tabs),
                            sorted_contours[k].id)]

\* The toolpaths one assignment appends, each with the input position of
\* the assignment and the id of its contour.
Tagged(made, position) ==
    [i \in 1..Len(made) |->
        [toolpath |-> made[i].toolpath,
         assignment |-> position,
         contour |-> made[i].contour]]

\* The loop over sorted_assignments from position k on.
RECURSIVE ToolpathsFrom(_, _, _)
ToolpathsFrom(req, sorted, k) ==
    IF k > Len(sorted) THEN <<>>
    ELSE Tagged(IF Skips(req, req.assignments[sorted[k]]) THEN <<>>
                ELSE AssignmentToolpaths(req, req.assignments[sorted[k]]),
                sorted[k])
         \o ToolpathsFrom(req, sorted, k + 1)

GenerateToolpathFromOperationsResult(req) ==
    ToolpathsFrom(req, SortedAssignments(req), 1)

(***************************************************************************)
(* Inputs of generate_toolpath.                                            *)
(***************************************************************************)
\* Point lists of contours: a closed rectangle, a closed 3-4-5 triangle, an
\* open segment, and the degenerate ones (two equal points, one point).
PathSet ==
    { << <<0, 0>>, <<4, 0>>, <<4, 2>>, <<0, 2>>, <<0, 0>> >>,
      << <<0, 0>>, <<3, 4>>, <<3, 0>>, <<0, 0>> >>,
      << <<0, 0>>, <<3, 0>> >>,
      << <<1, 1>>, <<1, 1>> >>,
      << <<1, 1>> >> }

ContourTypes == {"exterior", "interior"}

TabHeights == {0, 2}

TabWidths == {0, 5, 13}

TabSettingsSet ==
    [enabled : BOOLEAN, height : TabHeights, width : TabWidths,
     count : -1..MaxTabs]

BaseTabs == [enabled |-> TRUE, height |-> 2, width |-> 1, count |-> 2]

\* The contours of a request: the contour at position i has id i, its type
\* from types, and the point list coords.
ContoursOf(types, coords) ==
    [i \in 1..Len(types) |-> [id |-> i, type |-> types[i], coords |-> coords]]

Idle == [fn |-> "none"]

\* The locals of auto_nesting and the response of its endpoint when it is
\* not running.
NestingIdle ==
    [sorted_objects |-> <<>>, stocks |-> <<>>, placements |-> <<>>,
     response |-> None]

MaxRetries == 2

MaxRequests == 2

\* No generate_and_execute call is running.
LlmIdle ==
    [pc |-> "idle", max_retries |-> None, self_max_retries |-> 0,
     retries |-> 0, attempt |-> 0, code |-> 0, llm_calls |-> 0,
     executions |-> 0, errors |-> <<>>, retry_messages |-> <<>>,
     outcome |-> None]

\* The two lazily created databases of main.py.
Databases == {"_db", "_snippets_db"}

\* A request that is not being served.
TaskIdle == [pc |-> "idle", database |-> "_db", handle |-> 0, outcome |-> "none"]

\* "_db: GenerationDB | None = None" and "_snippets_db: SnippetsDB | None =
\* None": no instance made (instance 0 stands for None), no request served.
DbIdle ==
    [global |-> [d \in Databases |-> 0],
     instances |-> [d \in Databases |-> <<>>],
     task |-> [p \in 1..MaxRequests |-> TaskIdle]]

Init ==
    /\ call = Idle
    /\ result = <<>>
    /\ history = <<>>
    /\ nesting = NestingIdle
    /\ llm = LlmIdle
    /\ db = DbIdle

\* generate_toolpath has served the request with these contours and
\* settings.
ServedContours(contour_result, settings) ==
    /\ call' = [fn |-> "generate_toolpath",
                contour_result |-> contour_result, settings |-> settings]
    /\ result' = GenerateToolpathResult(contour_result, settings)
    /\ history' = GenerateToolpathHistory(contour_result)
    /\ UNCHANGED <<nesting, llm, db>>

\* generate_toolpath(contour_result, settings): one contour under every tab
\* configuration, or several contours of either type under BaseTabs.
GenerateToolpath ==
    /\ call = Idle
    /\ \E coords \in PathSet, depth_per_pass \in 1..MaxDepth,
          total_depth \in 1..MaxDepth :
           \/ \E tabs \in TabSettingsSet :
                  ServedContours(
                      [object_id |-> 1,
                       contours |-> ContoursOf(<<"exterior">>, coords)],
                      [depth_per_pass |-> depth_per_pass,
                       total_depth |-> total_depth, tabs |-> tabs])
           \/ \E types \in SeqUpTo(ContourTypes, MaxContours) :
                  ServedContours(
                      [object_id |-> 1, contours |-> ContoursOf(types, coords)],
                      [depth_per_pass |-> depth_per_pass,
                       total_depth |-> total_depth, tabs |-> BaseTabs])

\* The handler has returned: the response goes to the caller.
Reply ==
    /\ call # Idle
    /\ nesting.sorted_objects = <<>>
    /\ call' = Idle
    /\ result' = <<>>
    /\ history' = <<>>
    /\ nesting' = NestingIdle
    /\ UNCHANGED <<llm, db>>

(***************************************************************************)
(* Inputs of generate_toolpath_from_operations.                            *)
(***************************************************************************)
MaxAssignments == 2

\* An operation id and a material id that nothing defines.
NoSuchOperation == 9

NoSuchMaterial == 9

Offsets == {0, 5}

BaseSettings ==
    [depth_per_pass |-> 2, total_depth |-> 7, tabs |-> BaseTabs,
     depth_per_peck |-> 2, tool_diameter |-> 4, pocket_stepover2 |-> 1,
     pocket_pattern |-> "contour-parallel",
     feed_rate |-> [xy |-> 75, z |-> 25], jog_speed |-> 200,
     spindle_speed |-> 18000]

RectanglePath == << <<0, 0>>, <<16, 0>>, <<16, 12>>, <<0, 12>>, <<0, 0>> >>

\* The detected operations of two objects: object 1 has a contour operation
\* (1) with the given contours and a pocket (2); object 2 has a drill (3) and
\* a contour operation (4).  depth is the detected depth of each.
Detected(contours, depth) ==
    << [operation_id |-> 1, object_id |-> 1, operation_type |-> "contour",
        geometry |-> [contours |-> contours, depth |-> depth]],
       [operation_id |-> 2, object_id |-> 1, operation_type |-> "pocket",
        geometry |-> [contours |-> << [id |-> 1, type |-> "pocket",
                                       coords |-> RectanglePath] >>,
                      depth |-> depth]],
       [operation_id |-> 3, object_id |-> 2, operation_type |-> "drill",
        geometry |-> [contours |-> << [id |-> 1, type |-> "drill_center",
                                       coords |-> << <<2, 2>> >>] >>,
                      depth |-> depth]],
       [operation_id |-> 4, object_id |-> 2, operation_type |-> "contour",
        geometry |-> [contours |-> << [id |-> 1, type |-> "exterior",
                                       coords |-> RectanglePath] >>,
                      depth |-> depth]] >>

\* Two materials of different thickness.
Sheet(thickness) ==
    << [material_id |-> 1, thickness |-> thickness],
       [material_id |-> 2, thickness |-> thickness + 1] >>

Request(assignments, detected, sheet, placements) ==
    [assignments |-> assignments, detected |-> detected, sheet |-> sheet,
     placements |-> placements,
     object_origins |-> [o \in {1, 2} |-> <<0, 0>>],
     bounding_boxes |-> [o \in {1, 2} |-> [x |-> 16, y |-> 12]]]

TwoContours == ContoursOf(<<"exterior", "interior">>, RectanglePath)

\* A batch in which assignments are disabled or name unknown operations or
\* materials; picks[i] is <<operation_id, material_id, enabled>>.
SkipRequest(picks) ==
    Request([i \in 1..Len(picks) |->
                [operation_id |-> picks[i][1], material_id |-> picks[i][2],
                 enabled |-> picks[i][3], settings |-> BaseSettings,
                 order |-> i]],
            Detected(TwoContours, 3), Sheet(4), <<>>)

SkipPicks == {1, 3, NoSuchOperation} \X {1, 2, NoSuchMaterial} \X BOOLEAN

\* The placements of a request: each object has none, or one at offsets
\* from Offsets.
PlacementOptions == {None} \cup [x_offset : Offsets, y_offset : Offsets]

PlacementList(p1, p2) ==
    SelectSeq(<< IF p1 = None THEN None
                 ELSE [object_id |-> 1, x_offset |-> p1.x_offset,
                       y_offset |-> p1.y_offset, rotation |-> 0],
                 IF p2 = None THEN None
                 ELSE [object_id |-> 2, x_offset |-> p2.x_offset,
                       y_offset |-> p2.y_offset, rotation |-> 0] >>,
              LAMBDA p : p # None)

\* A batch of enabled assignments; picks[i] is <<operation_id, order>>.
OrderRequest(picks, placements) ==
    Request([i \in 1..Len(picks) |->
                [operation_id |-> picks[i][1], material_id |-> 1,
                 enabled |-> TRUE, settings |-> BaseSettings,
                 order |-> picks[i][2]]],
            Detected(TwoContours, 3), Sheet(4), placements)

OrderPicks == {1, 3, 4} \X {1, 2}

\* One assignment of one operation, for a mix of contours, sheet thickness,
\* detected depth, step, pocket pattern and rotation of the placement.
SingleRequest(op, types, thickness, depth, step, pattern, rotation) ==
    Request(<< [operation_id |-> op, material_id |-> 1, enabled |-> TRUE,
                settings |-> [BaseSettings EXCEPT
                                  !.depth_per_pass = step,
                                  !.depth_per_peck = step,
                                  !.total_depth = MaxDepth + 2,
                                  !.pocket_pattern = pattern],
                order |-> 1] >>,
            Detected(ContoursOf(types, RectanglePath), depth),
            Sheet(thickness),
            << [object_id |-> 1, x_offset |-> 5, y_offset |-> 0,
                rotation |-> rotation] >>)

\* The outline of the 16 x 12 object in world space, the object's lower
\* left corner at origin; closed or with the closing point left out.
OutlineAt(origin, closed) ==
    LET ring == [i \in 1..Len(RectanglePath) |->
                    <<RectanglePath[i][1] + origin[1],
                      RectanglePath[i][2] + origin[2]>>]
    IN  IF closed THEN ring ELSE SubSeq(ring, 1, Len(ring) - 1)

\* A request for the contour operation of object 1, an exterior and an
\* interior contour, the object at origin in world space and placed at
\* offset with the rotation.
TransformRequest(origin, offset, rotation, closed) ==
    [SingleRequest(1, <<"exterior", "interior">>, 2, 2, 2, "raster", rotation)
         EXCEPT !.detected =
                    Detected(ContoursOf(<<"exterior", "interior">>,
                                        OutlineAt(origin, closed)), 2),
                !.placements =
                    << [object_id |-> 1, x_offset |-> offset[1],
                        y_offset |-> offset[2], rotation |-> rotation] >>,
                !.object_origins = [o \in {1, 2} |-> origin]]

\* The handler has served request c with the toolpaths made.
Served(c, made) ==
    /\ call' = c
    /\ result' = [i \in 1..Len(made) |-> made[i].toolpath]
    /\ history' = [i \in 1..Len(made) |->
                      [assignment |-> made[i].assignment,
                       contour |-> made[i].contour]]
    /\ UNCHANGED <<nesting, llm, db>>

ServedOperations(req) ==
    Served([fn |-> "generate_toolpath_from_operations", req |-> req],
           GenerateToolpathFromOperationsResult(req))

\* generate_toolpath_from_operations(assignments, detected, sheet,
\* placements, object_origins, bounding_boxes)
GenerateToolpathFromOperations ==
    /\ call = Idle
    /\ \/ \E picks \in SeqUpTo(SkipPicks, MaxAssignments) :
              ServedOperations(SkipRequest(picks))
       \/ \E picks \in SeqUpTo(OrderPicks, MaxAssignments),
             p1 \in PlacementOptions, p2 \in PlacementOptions :
              ServedOperations(OrderRequest(picks, PlacementList(p1, p2)))
       \/ \E thickness \in 1..MaxDepth, depth \in 1..MaxDepth,
             step \in 1..MaxDepth, pattern \in {"contour-parallel", "raster"},
             rotation \in {0, 90} :
              \/ \E types \in SeqUpTo(ContourTypes, MaxContours) :
                     ServedOperations(SingleRequest(1, types, thickness, depth,
                                                    step, pattern, rotation))
              \/ \E op \in {2, 3} :
                     ServedOperations(SingleRequest(op, <<"exterior">>,
                                                    thickness, depth, step,
                                                    pattern, rotation))
       \/ \E origin \in {<<0, 0>>, <<3, 7>>},
             offset \in {<<0, 0>>, <<5, 0>>, <<10, 20>>},
             rotation \in {0, 90}, closed \in BOOLEAN :
              ServedOperations(TransformRequest(origin, offset, rotation,
                                                closed))

DrillCenters == {<<0, 0>>, <<25, 15>>}

\* generate_drill_toolpath(center, total_depth, depth_per_peck)
GenerateDrill ==
    /\ call = Idle
    /\ \E center \in DrillCenters, total_depth \in 1..MaxDepth,
          depth_per_peck \in 1..MaxDepth :
           /\ call' = [fn |-> "generate_drill_toolpath", center |-> center,
                       total_depth |-> total_depth,
                       depth_per_peck |-> depth_per_peck]
           /\ result' = GenerateDrillToolpath(center, total_depth,
                                              depth_per_peck)
           /\ history' = <<>>
           /\ UNCHANGED <<nesting, llm, db>>

NextToolpath ==
    \/ GenerateToolpath
    \/ GenerateToolpathFromOperations
    \/ GenerateDrill
    \/ Reply

SpecToolpath == Init /\ [][NextToolpath]_vars

(***************************************************************************)
(* nesting.py, for the parts of the model: axis-parallel rectangles.       *)
(*                                                                         *)
(* A rotation by an odd multiple of 45 degrees brings sqrt(2) into the     *)
(* lengths, so a length is a pair <<a, b>> that stands for                 *)
(* (a + b * sqrt(2)) / 4 and is compared exactly.                          *)
(***************************************************************************)
STEP == 5

Num(a) == <<4 * a, 0>>

Plus(p, q) == <<p[1] + q[1], p[2] + q[2]>>

Minus(p, q) == <<p[1] - q[1], p[2] - q[2]>>

Half(p) == <<p[1] \div 2, p[2] \div 2>>

\* a + b * sqrt(2) >= 0
NonNeg(p) ==
    IF p[1] >= 0
    THEN p[2] >= 0 \/ p[1] * p[1] >= 2 * p[2] * p[2]
    ELSE p[2] > 0 /\ 2 * p[2] * p[2] >= p[1] * p[1]

LessEq(p, q) == NonNeg(Minus(q, p))

Greater(p, q) == ~LessEq(p, q)

\* poly.buffer(margin, join_style="mitre") of a rectangle: every side moves
\* outwards by margin and the corners stay square.
Buffer(rect, margin) ==
    <<rect[1] - margin, rect[2] - margin, rect[3] + margin, rect[4] + margin>>

\* _object_polygon: the outline when it has three points or more, else the
\* bounding box at the origin; buffered when margin > 0.  A part polygon is
\* kept as its width and height: its position is normalised away before it
\* is placed.
ObjectPolygon(obj, margin) ==
    LET poly == IF Len(obj.outline) >= 3
                THEN Bounds(obj.outline)
                ELSE <<0, 0, obj.bounding_box.x, obj.bounding_box.y>>
        buffered == IF margin > 0 THEN Buffer(poly, margin) ELSE poly
    IN  [w |-> buffered[3] - buffered[1], h |-> buffered[4] - buffered[2]]

\* maxx - minx of rotated.bounds, the part rotated about its centroid:
\* w or h at a multiple of 90 degrees, (w + h) / sqrt(2) in between.
PartW(part, angle) ==
    IF angle % 180 = 0 THEN Num(part.w)
    ELSE IF angle % 180 = 90 THEN Num(part.h)
    ELSE <<0, 2 * (part.w + part.h)>>

\* maxy - miny of rotated.bounds
PartH(part, angle) ==
    IF angle % 180 = 0 THEN Num(part.h)
    ELSE IF angle % 180 = 90 THEN Num(part.w)
    ELSE <<0, 2 * (part.w + part.h)>>

\* _position_polygon, and the candidate of _try_place_blf: the part rotated
\* by angle and moved so that the lower left corner of its bounds is (x, y).
PositionPolygon(part, x, y, angle) ==
    [w |-> part.w, h |-> part.h, angle |-> angle, x |-> x, y |-> y]

\* The centre of a positioned polygon.
CenterX(p) == Plus(Num(p.x), Half(PartW(p, p.angle)))

CenterY(p) == Plus(Num(p.y), Half(PartH(p, p.angle)))

Axes == {"x", "y", "x+y", "y-x"}

\* The projection of the centre on an axis.
Proj(p, axis) ==
    CASE axis = "x" -> CenterX(p)
      [] axis = "y" -> CenterY(p)
      [] axis = "x+y" -> Plus(CenterX(p), CenterY(p))
      [] axis = "y-x" -> Minus(CenterY(p), CenterX(p))

\* Half the length of the projection of a positioned polygon on an axis.
\* A rotation by 45 (or 225) degrees turns the w side along x+y, one by 135
\* (or 315) along y-x.
Radius(p, axis) ==
    IF axis = "x" THEN Half(PartW(p, p.angle))
    ELSE IF axis = "y" THEN Half(PartH(p, p.angle))
    ELSE IF p.angle % 90 = 0 THEN Half(Num(p.w + p.h))
    ELSE IF (axis = "x+y") = (p.angle % 180 = 45) THEN <<0, 2 * p.w>>
    ELSE <<0, 2 * p.h>>

\* candidate.intersects(p): the two closed convex polygons share a point.
\* Their sides are normal to the four axes, so they are disjoint exactly
\* when their projections on one of the axes are.
Intersects(candidate, p) ==
    \A axis \in Axes :
        LET d == Minus(Proj(candidate, axis), Proj(p, axis))
            r == Plus(Radius(candidate, axis), Radius(p, axis))
        IN  LessEq(d, r) /\ LessEq(Minus(<<0, 0>>, d), r)

\* stock_poly.contains(candidate), stock_poly being box(0, 0, w, h).
Contains(stock_w, stock_h, candidate) ==
    /\ candidate.x >= 0
    /\ candidate.y >= 0
    /\ LessEq(Plus(Num(candidate.x), PartW(candidate, candidate.angle)),
              Num(stock_w))
    /\ LessEq(Plus(Num(candidate.y), PartH(candidate, candidate.angle)),
              Num(stock_h))

IntersectsAnyMutant(candidate, placed) ==
    Len(placed) > 0 /\ Intersects(candidate, placed[1])

\* any(candidate.intersects(p) for p in placed)
IntersectsAny(candidate, placed) ==
    \E i \in 1..Len(placed) : Intersects(candidate, placed[i])

\* score < best_score, best_score being (inf, inf) while best is None.
ScoreLess(y, x, best) ==
    \/ best = None
    \/ y < best.y
    \/ (y = best.y /\ x < best.x)

\* The inner while loop of _try_place_blf: the leftmost free x at this y,
\* or None.
RECURSIVE ScanX(_, _, _, _, _, _, _)
ScanX(part, angle, placed, stock_w, stock_h, y, x) ==
    IF Greater(Plus(Num(x), PartW(part, angle)), Num(stock_w)) THEN None
    ELSE IF /\ Contains(stock_w, stock_h, PositionPolygon(part, x, y, angle))
            /\ ~IntersectsAny(PositionPolygon(part, x, y, angle), placed)
         THEN [x |-> x, y |-> y, angle |-> angle]
         ELSE ScanX(part, angle, placed, stock_w, stock_h, y, x + STEP)

\* best after the leftmost position found at a y level is taken.
Taken(found, best) ==
    IF found # None /\ ScoreLess(found.y, found.x, best) THEN found ELSE best

\* The y level ends the scan: "if best and best_score[0] == y: break".
Settled(best, y) == best # None /\ best.y = y

\* The outer while loop of _try_place_blf; AfterRow is the end of its body.
RECURSIVE ScanY(_, _, _, _, _, _, _)
RECURSIVE AfterRow(_, _, _, _, _, _, _)
ScanY(part, angle, placed, stock_w, stock_h, y, best) ==
    IF Greater(Plus(Num(y), PartH(part, angle)), Num(stock_h)) THEN best
    ELSE AfterRow(part, angle, placed, stock_w, stock_h, y,
                  Taken(ScanX(part, angle, placed, stock_w, stock_h, y, 0),
                        best))

AfterRow(part, angle, placed, stock_w, stock_h, y, best) ==
    IF Settled(best, y) THEN best
    ELSE ScanY(part, angle, placed, stock_w, stock_h, y + STEP, best)

\* The loop over the angles 0, 45, ..., 315 of _try_place_blf; AfterAngle is
\* "if best: break".
RECURSIVE ScanAngles(_, _, _, _, _, _)
RECURSIVE AfterAngle(_, _, _, _, _, _)
ScanAngles(part, placed, stock_w, stock_h, angle, best) ==
    IF angle >= 360 THEN best
    ELSE IF \/ Greater(PartW(part, angle), Num(stock_w))
            \/ Greater(PartH(part, angle), Num(stock_h))
         THEN ScanAngles(part, placed, stock_w, stock_h, angle + 45, best)
         ELSE AfterAngle(part, placed, stock_w, stock_h, angle,
                         ScanY(part, angle, placed, stock_w, stock_h, 0, best))

AfterAngle(part, placed, stock_w, stock_h, angle, best) ==
    IF best # None THEN best
    ELSE ScanAngles(part, placed, stock_w, stock_h, angle + 45, best)

\* _try_place_blf(part, stock_poly, placed, stock_w, stock_h): [x, y, angle]
\* or None.
TryPlaceBlf(part, placed, stock_w, stock_h) ==
    ScanAngles(part, placed, stock_w, stock_h, 0, None)

\* margin = tool_diameter / 2 + clearance; the model's tool diameters are
\* even.
Margin(tool_diameter, clearance) == (tool_diameter \div 2) + clearance

\* The sort key of sorted_objects, largest first.
BoxArea(o) == o.bounding_box.x * o.bounding_box.y

LargerFirst(a, b) == BoxArea(a) > BoxArea(b)

\* sorted(objects, key=area, reverse=True): largest first, equal areas in
\* input order.
SortedObjects(objects) ==
    SortedWith(objects,
               [i \in 1..Len(objects) |->
                   [j \in 1..Len(objects) |->
                       LargerFirst(objects[i], objects[j])]])

\* stocks.get(sid, []); sheet "sheet_k" is the k-th entry of stocks.
StockGet(stocks, sid) == IF sid <= Len(stocks) THEN stocks[sid] ELSE <<>>

\* The loop over stock_ids: the first of the existing sheets and one fresh
\* sheet where the part finds a place, as [sid, at], or None.  AfterStock
\* is "if result is not None".
RECURSIVE FirstStock(_, _, _, _)
RECURSIVE AfterStock(_, _, _, _, _)
FirstStock(base_poly, template, stocks, sid) ==
    IF sid > Len(stocks) + 1 THEN None
    ELSE AfterStock(base_poly, template, stocks, sid,
                    TryPlaceBlf(base_poly, StockGet(stocks, sid),
                                template.width, template.depth))

AfterStockMutant(base_poly, template, stocks, sid, found) ==
    IF found # None /\ sid > Len(stocks) THEN [sid |-> sid, at |-> found]
    ELSE FirstStock(base_poly, template, stocks, sid + 1)

AfterStock(base_poly, template, stocks, sid, found) ==
    IF found # None THEN [sid |-> sid, at |-> found]
    ELSE FirstStock(base_poly, template, stocks, sid + 1)

\* The PlacementItem of a part that found its place.
PlacedItem(obj, template, hit) ==
    [object_id |-> obj.object_id, material_id |-> template.material_id,
     sheet_id |-> hit.sid, x_offset |-> hit.at.x, y_offset |-> hit.at.y,
     rotation |-> hit.at.angle]

FallbackItemsMutant(obj, template) == <<>>

\* "if not placed": the part goes to the origin of sheet_1.
FallbackItems(obj, template) ==
    <<[object_id |-> obj.object_id, material_id |-> template.material_id,
       sheet_id |-> 1, x_offset |-> 0, y_offset |-> 0, rotation |-> 0]>>

\* stocks after final_poly is appended to the list of sheet sid.
StocksWith(stocks, sid, final_poly) ==
    IF sid <= Len(stocks)
    THEN [stocks EXCEPT ![sid] = Append(@, final_poly)]
    ELSE Append(stocks, <<final_poly>>)

NestObjectMutant(n, template, margin, base_poly, hit) ==
    IF hit = None
    THEN [sorted_objects |-> <<>>, stocks |-> n.stocks,
          placements |-> n.placements
                         \o FallbackItems(Head(n.sorted_objects), template)]
    ELSE [sorted_objects |-> Tail(n.sorted_objects),
          stocks |-> StocksWith(n.stocks, hit.sid,
                                PositionPolygon(base_poly, hit.at.x, hit.at.y,
                                                hit.at.angle)),
          placements |-> Append(n.placements,
                                PlacedItem(Head(n.sorted_objects), template,
                                           hit))]

\* One iteration of the loop over sorted_objects.
NestObject(n, template, margin, base_poly, hit) ==
    [sorted_objects |-> Tail(n.sorted_objects),
     stocks |-> IF hit = None THEN n.stocks
                ELSE StocksWith(n.stocks, hit.sid,
                                PositionPolygon(base_poly, hit.at.x, hit.at.y,
                                                hit.at.angle)),
     placements |-> IF hit = None
                    THEN n.placements
                         \o FallbackItems(Head(n.sorted_objects), template)
                    ELSE Append(n.placements,
                                PlacedItem(Head(n.sorted_objects), template,
                                           hit))]

(***************************************************************************)
(* Nesting requests.  The object at input position i has the id i, as      *)
(* brep_import numbers the objects of a file.                              *)
(***************************************************************************)
MaxParts == 3

NoOutline == <<>>

\* Bounding box and outline of the parts: a square, a bar with its outline,
\* a long bar that fits a square sheet only diagonally, and a part larger
\* than every sheet.
PartKinds ==
    {[bounding_box |-> [x |-> 4, y |-> 4], outline |-> NoOutline],
     [bounding_box |-> [x |-> 9, y |-> 3],
      outline |-> RectRing(<<0, 0, 9, 3>>)],
     [bounding_box |-> [x |-> 14, y |-> 2], outline |-> NoOutline],
     [bounding_box |-> [x |-> 30, y |-> 30], outline |-> NoOutline]}

BrepObjects(kinds) ==
    [i \in 1..Len(kinds) |->
        [object_id |-> i, bounding_box |-> kinds[i].bounding_box,
         outline |-> kinds[i].outline]]

SquareSheet == [material_id |-> 1, width |-> 12, depth |-> 12]

WideSheet == [material_id |-> 2, width |-> 20, depth |-> 10]

\* sheet.materials
MaterialLists == {<<>>, <<SquareSheet>>, <<WideSheet, SquareSheet>>}

\* (tool_diameter, clearance)
ToolClearances == {<<0, 0>>, <<2, 0>>, <<2, 1>>}

\* next((o for o in req.objects if o.object_id == p.object_id), None)
RECURSIVE ObjectById(_, _, _)
ObjectById(objects, object_id, i) ==
    IF i > Len(objects) THEN None
    ELSE IF objects[i].object_id = object_id THEN objects[i]
    ELSE ObjectById(objects, object_id, i + 1)

\* "if obj and p.x_offset == 0 and p.y_offset == 0 and p.rotation == 0" and
\* "if tmpl and (bb.x > tmpl.width or bb.y > tmpl.depth)".
Warns(req, p, obj) ==
    /\ obj # None
    /\ p.x_offset = 0 /\ p.y_offset = 0 /\ p.rotation = 0
    /\ Len(req.sheet.materials) > 0
    /\ \/ obj.bounding_box.x > req.sheet.materials[1].width
       \/ obj.bounding_box.y > req.sheet.materials[1].depth

\* The warnings of auto_nesting_endpoint, in the order of the placements;
\* a warning is modelled by the object id its text starts with.
RECURSIVE Warnings(_, _, _)
Warnings(req, placements, k) ==
    IF k > Len(placements) THEN <<>>
    ELSE (IF Warns(req, placements[k],
                   ObjectById(req.objects, placements[k].object_id, 1))
          THEN <<placements[k].object_id>> ELSE <<>>)
         \o Warnings(req, placements, k + 1)

\* AutoNestingResponse(placements, sheet_count, warnings)
AutoNestingResponse(req, placements) ==
    [placements |-> placements,
     sheet_count |-> Cardinality({placements[k].sheet_id :
                                     k \in 1..Len(placements)}),
     warnings |-> Warnings(req, placements, 1)]

\* The request of the auto-nesting endpoint.
AutoNestingRequest(kinds, materials, tc) ==
    [fn |-> "auto_nesting", objects |-> BrepObjects(kinds),
     sheet |-> [materials |-> materials],
     tool_diameter |-> tc[1], clearance |-> tc[2]]

\* auto_nesting_endpoint calls auto_nesting(objects, sheet, tool_diameter,
\* clearance): the early return,
\* or the state before the loop.
AutoNesting ==
    /\ call = Idle
    /\ \E kinds \in SeqUpTo(PartKinds, MaxParts), materials \in MaterialLists,
          tc \in ToolClearances :
           /\ call' = AutoNestingRequest(kinds, materials, tc)
           /\ nesting' =
                  IF Len(kinds) = 0 \/ Len(materials) = 0
                  THEN [NestingIdle EXCEPT
                            !.response =
                                AutoNestingResponse(
                                    AutoNestingRequest(kinds, materials, tc),
                                    <<>>)]
                  ELSE [sorted_objects |-> SortedObjects(BrepObjects(kinds)),
                        stocks |-> <<>>, placements |-> <<>>,
                        response |-> None]
           /\ result' = <<>>
           /\ history' = <<>>
    /\ UNCHANGED <<llm, db>>

\* The locals after the next iteration of the loop.
NestNext(n, template, margin, base_poly) ==
    NestObject(n, template, margin, base_poly,
               FirstStock(base_poly, template, n.stocks, 1))

\* The iteration has run; after the last one placements is returned and
\* the endpoint builds its response.
Nested(n) ==
    /\ nesting' = [sorted_objects |-> n.sorted_objects, stocks |-> n.stocks,
                   placements |-> n.placements,
                   response |-> IF n.sorted_objects = <<>>
                                THEN AutoNestingResponse(call, n.placements)
                                ELSE None]
    /\ result' = IF n.sorted_objects = <<>> THEN n.placements ELSE result

\* One iteration of "for obj in sorted_objects".
NestingStep ==
    /\ call # Idle
    /\ call.fn = "auto_nesting"
    /\ nesting.sorted_objects # <<>>
    /\ Nested(NestNext(nesting, call.sheet.materials[1],
                       Margin(call.tool_diameter, call.clearance),
                       ObjectPolygon(Head(nesting.sorted_objects),
                                     Margin(call.tool_diameter,
                                            call.clearance))))
    /\ UNCHANGED <<call, history, llm, db>>

NextNesting == AutoNesting \/ NestingStep \/ Reply

SpecNesting == Init /\ [][NextNesting]_vars


(***************************************************************************)
(* What a served toolpath request says about toolpath k of the response.   *)
(***************************************************************************)
FromOperations == call.fn = "generate_toolpath_from_operations"

FromContours == call.fn = "generate_toolpath"

\* The assignment and the detected operation toolpath k was made for.
AssignmentOf(k) == call.req.assignments[history[k].assignment]

OperationOf(k) == OpLookup(call.req.detected, AssignmentOf(k).operation_id)

MaterialOf(k) == MatLookup(call.req.sheet, AssignmentOf(k).material_id)

\* The indices of the response's toolpaths that cut a contour.
ContourToolpaths ==
    IF FromContours THEN 1..Len(result)
    ELSE IF FromOperations
         THEN {k \in 1..Len(result) : OperationOf(k).operation_type = "contour"}
         ELSE {}

\* The depth to cut, the step and the tab settings the request gives for
\* contour toolpath k.
DepthOf(k) ==
    IF FromContours THEN call.settings.total_depth ELSE MaterialOf(k).thickness

\* The contours the request gives for the operation of toolpath k.
InputContours(k) ==
    IF FromContours THEN call.contour_result.contours
    ELSE OperationOf(k).geometry.contours

StepOf(k) ==
    IF FromContours THEN call.settings.depth_per_pass
    ELSE AssignmentOf(k).settings.depth_per_pass

TabsOf(k) ==
    IF FromContours THEN call.settings.tabs ELSE AssignmentOf(k).settings.tabs

\* The path has two consecutive points that differ: its length is positive.
HasLength(path) == \E i \in 1..(Len(path) - 1) : path[i] # path[i + 1]

(***************************************************************************)
(* C1.  Every contour toolpath has n = ceil(total_depth / depth_per_pass)  *)
(* passes, that is (n - 1) * depth_per_pass < total_depth <= n *           *)
(* depth_per_pass, and they carry the pass numbers 1..n in that order.     *)
(***************************************************************************)
C1_PassCount ==
    \A k \in ContourToolpaths :
        LET n == Len(result[k].passes)
        IN  /\ (n - 1) * StepOf(k) < DepthOf(k)
            /\ DepthOf(k) <= n * StepOf(k)
            /\ \A i \in 1..n : result[k].passes[i].pass_number = i

\* A sheet thickness the step does not divide, cut in two passes.
C1_Witness ==
    /\ FromOperations
    /\ \E k \in ContourToolpaths :
           /\ DepthOf(k) % StepOf(k) # 0
           /\ Len(result[k].passes) = 2

(***************************************************************************)
(* C2.  In every contour toolpath each pass is strictly deeper than the    *)
(* one before, every pass i but the last is at total_depth - i *           *)
(* depth_per_pass, and the last is at -PENETRATION_MARGIN.                 *)
(***************************************************************************)
C2_StepDown ==
    \A k \in ContourToolpaths :
        LET passes == result[k].passes
            n == Len(passes)
        IN  /\ \A i \in 2..n : passes[i].z_depth < passes[i - 1].z_depth
            /\ \A i \in 1..(n - 1) :
                   passes[i].z_depth = DepthOf(k) - i * StepOf(k)
            /\ n > 0 => /\ passes[n].z_depth = -PENETRATION_MARGIN
                        /\ passes[n].z_depth < 0

\* Three passes or more for a depth the step does not divide.
C2_Witness ==
    \E k \in ContourToolpaths :
        /\ DepthOf(k) % StepOf(k) # 0
        /\ Len(result[k].passes) >= 3

(***************************************************************************)
(* C3 as claimed.  With tabs enabled and count = k the final pass of every *)
(* contour toolpath carries exactly k tab segments and every other pass    *)
(* none; with tabs disabled no pass carries any.  (Stated for k >= 0: a   *)
(* negative k cannot be a number of segments.)                             *)
(***************************************************************************)
C3_TabCountAsClaimed ==
    \A k \in ContourToolpaths :
        LET passes == result[k].passes
            n == Len(passes)
        IN  TabsOf(k).count >= 0 =>
                \A i \in 1..n :
                    Len(passes[i].tabs) =
                        IF i = n /\ TabsOf(k).enabled
                        THEN TabsOf(k).count ELSE 0

(***************************************************************************)
(* C3 amended.  With tabs enabled, count = k >= 1 and a path with at least *)
(* two points and positive length, the final pass of every contour         *)
(* toolpath carries exactly k tab segments; every other pass carries none, *)
(* and so does the final pass when tabs are disabled, when count <= 0, or  *)
(* when the path has fewer than two points or no length.                   *)
(***************************************************************************)
C3_TabCount ==
    \A k \in ContourToolpaths :
        LET passes == result[k].passes
            n == Len(passes)
        IN  \A i \in 1..n :
                Len(passes[i].tabs) =
                    IF /\ i = n
                       /\ TabsOf(k).enabled
                       /\ TabsOf(k).count >= 1
                       /\ HasLength(passes[i].path)
                    THEN TabsOf(k).count
                    ELSE 0

\* Tabs on the final pass of a toolpath with several passes.
C3_Witness ==
    \E k \in ContourToolpaths :
        LET n == Len(result[k].passes)
        IN  /\ n >= 2
            /\ TabsOf(k).enabled
            /\ TabsOf(k).count = 2
            /\ Len(result[k].passes[n].tabs) = 2

(***************************************************************************)
(* C4 as claimed.  The lifted Z of every tab segment is strictly above the *)
(* z_depth of the pass that carries it.                                    *)
(***************************************************************************)
C4_TabAboveCutAsClaimed ==
    \A k \in ContourToolpaths :
        \A i \in 1..Len(result[k].passes) :
            LET pass == result[k].passes[i]
            IN  \A t \in 1..Len(pass.tabs) : pass.tabs[t].z_tab > pass.z_depth

(***************************************************************************)
(* C4 amended.  The lifted Z of every tab segment is the z_depth of its    *)
(* pass plus the tab height: strictly above the cut whenever the tab       *)
(* height is positive.                                                     *)
(***************************************************************************)
C4_TabAboveCut ==
    \A k \in ContourToolpaths :
        \A i \in 1..Len(result[k].passes) :
            LET pass == result[k].passes[i]
            IN  \A t \in 1..Len(pass.tabs) :
                    /\ pass.tabs[t].z_tab = pass.z_depth + TabsOf(k).height
                    /\ TabsOf(k).height > 0 => pass.tabs[t].z_tab > pass.z_depth

\* A tab of positive height on a final pass.
C4_Witness ==
    \E k \in ContourToolpaths :
        \E i \in 1..Len(result[k].passes) :
            /\ TabsOf(k).height > 0
            /\ Len(result[k].passes[i].tabs) > 0
            /\ result[k].passes[i].tabs[1].z_tab > result[k].passes[i].z_depth

(***************************************************************************)
(* C5.  Among the toolpaths of one contour operation, every toolpath of an *)
(* interior contour comes before every toolpath of an exterior contour,    *)
(* contours of the same type keep their input order, and each input        *)
(* contour has its toolpath.  (A contour's id is its input position.)      *)
(***************************************************************************)
C5_InteriorFirst ==
    /\ \A k1, k2 \in ContourToolpaths :
           (k1 < k2 /\ history[k1].assignment = history[k2].assignment) =>
               LET c1 == InputContours(k1)[history[k1].contour]
                   c2 == InputContours(k2)[history[k2].contour]
               IN  /\ ~(c1.type = "exterior" /\ c2.type = "interior")
                   /\ c1.type = c2.type => c1.id < c2.id
    /\ \A k \in ContourToolpaths :
           \A c \in 1..Len(InputContours(k)) :
               \E k2 \in ContourToolpaths :
                   /\ history[k2].assignment = history[k].assignment
                   /\ history[k2].contour = c

\* An operation whose exterior contour is given first and cut last.
C5_Witness ==
    /\ FromOperations
    /\ \E k1, k2 \in ContourToolpaths :
           /\ k1 < k2
           /\ history[k1].assignment = history[k2].assignment
           /\ history[k1].contour > history[k2].contour
           /\ InputContours(k1)[history[k1].contour].type = "interior"
           /\ InputContours(k2)[history[k2].contour].type = "exterior"

(***************************************************************************)
(* C6.  generate_toolpath_from_operations emits the toolpaths in ascending *)
(* (y_offset, x_offset) order of the placement of the operation's object   *)
(* when placements are given; the order field only breaks ties, and        *)
(* toolpaths of objects without placement come last.  Without placements   *)
(* the toolpaths come in ascending order field.                            *)
(***************************************************************************)
PlacementOf(k) == PlcLookup(call.req.placements, OperationOf(k).object_id)

C6_PlacementOrder ==
    FromOperations =>
        \A k1, k2 \in 1..Len(result) :
            k1 < k2 =>
                LET p1 == PlacementOf(k1)
                    p2 == PlacementOf(k2)
                    o1 == AssignmentOf(k1).order
                    o2 == AssignmentOf(k2).order
                IN  IF Len(call.req.placements) = 0 THEN o1 <= o2
                    ELSE IF p1 = None THEN p2 = None /\ o1 <= o2
                    ELSE IF p2 = None THEN TRUE
                    ELSE \/ p1.y_offset < p2.y_offset
                         \/ /\ p1.y_offset = p2.y_offset
                            /\ p1.x_offset < p2.x_offset
                         \/ /\ p1.y_offset = p2.y_offset
                            /\ p1.x_offset = p2.x_offset
                            /\ o1 <= o2

\* The placement decides against the order fields, x breaks a tie in y, and
\* an object without placement is cut last.
C6_Witness ==
    /\ FromOperations
    /\ \E k1, k2 \in 1..Len(result) :
           /\ k1 < k2
           /\ PlacementOf(k1) # None
           /\ PlacementOf(k2) # None
           /\ PlacementOf(k1).y_offset = PlacementOf(k2).y_offset
           /\ PlacementOf(k1).x_offset < PlacementOf(k2).x_offset
           /\ AssignmentOf(k1).order > AssignmentOf(k2).order
           /\ history[k1].assignment > history[k2].assignment

(***************************************************************************)
(* C7.  An assignment that is disabled, or names an operation that is not  *)
(* detected, or names a material the sheet does not have, contributes no   *)
(* toolpath; the handler still returns, and every other assignment of the  *)
(* batch has its toolpaths: one per contour of a contour operation, one    *)
(* for a pocket or a drill.                                                *)
(***************************************************************************)
SkippedAssignment(a) ==
    \/ ~a.enabled
    \/ \A i \in 1..Len(call.req.detected) :
           call.req.detected[i].operation_id # a.operation_id
    \/ \A i \in 1..Len(call.req.sheet) :
           call.req.sheet[i].material_id # a.material_id

ToolpathsOfAssignment(i) == {k \in 1..Len(result) : history[k].assignment = i}

C7_SkipAndContinue ==
    FromOperations =>
        \A i \in 1..Len(call.req.assignments) :
            LET a == call.req.assignments[i]
                op == OpLookup(call.req.detected, a.operation_id)
            IN  Cardinality(ToolpathsOfAssignment(i)) =
                    IF SkippedAssignment(a) THEN 0
                    ELSE IF op.operation_type = "contour"
                         THEN Len(op.geometry.contours)
                         ELSE 1

\* A batch whose first assignment names a material the sheet does not have
\* and whose second assignment is cut.
C7_Witness ==
    /\ FromOperations
    /\ Len(call.req.assignments) = 2
    /\ call.req.assignments[1].enabled
    /\ call.req.assignments[1].operation_id = 1
    /\ call.req.assignments[1].material_id = NoSuchMaterial
    /\ ~SkippedAssignment(call.req.assignments[2])
    /\ ToolpathsOfAssignment(1) = {}
    /\ ToolpathsOfAssignment(2) # {}

(***************************************************************************)
(* C8.  A contour operation steps down through the thickness of the        *)
(* material its assignment names; a pocket and a drill operation step down *)
(* through the detected depth of the operation.  The depth shows in the    *)
(* number of Z levels and in the Z of every level but the last.            *)
(***************************************************************************)
\* The z_depth values of the passes of toolpath k.
LevelsOf(k) == {result[k].passes[i].z_depth : i \in 1..Len(result[k].passes)}

\* n is ceil(depth / step).
IsCeil(n, depth, step) == (n - 1) * step < depth /\ depth <= n * step

C8_CuttingDepth ==
    FromOperations =>
        \A k \in 1..Len(result) :
            LET type == OperationOf(k).operation_type
                settings == AssignmentOf(k).settings
                thickness == MaterialOf(k).thickness
                depth == OperationOf(k).geometry.depth
                n == Cardinality(LevelsOf(k))
            IN  CASE type = "contour" ->
                       /\ IsCeil(n, thickness, settings.depth_per_pass)
                       /\ LevelsOf(k) =
                              {thickness - i * settings.depth_per_pass :
                                  i \in 1..(n - 1)} \cup {-PENETRATION_MARGIN}
                  [] type = "pocket" ->
                       /\ IsCeil(n, depth, settings.depth_per_pass)
                       /\ LevelsOf(k) =
                              {depth - i * settings.depth_per_pass :
                                  i \in 1..(n - 1)} \cup {-PENETRATION_MARGIN}
                  [] type = "drill" ->
                       /\ IsCeil(n, depth, settings.depth_per_peck)
                       /\ LevelsOf(k) =
                              {-(i * settings.depth_per_peck) :
                                  i \in 1..(n - 1)}
                              \cup {-(depth + PENETRATION_MARGIN_DRILL)}

\* A contour cut in more levels than the detected depth or the settings'
\* total depth would give.
C8_Witness ==
    /\ FromOperations
    /\ \E k \in 1..Len(result) :
           /\ OperationOf(k).operation_type = "contour"
           /\ MaterialOf(k).thickness = 4
           /\ OperationOf(k).geometry.depth = 1
           /\ AssignmentOf(k).settings.depth_per_pass = 1
           /\ AssignmentOf(k).settings.total_depth # 4
           /\ Cardinality(LevelsOf(k)) = 4

(***************************************************************************)
(* C9.  generate_drill_toolpath returns n = ceil(total_depth /             *)
(* depth_per_peck) passes numbered 1..n, each with the single point center *)
(* as its path and no tabs; peck i < n is at -(i * depth_per_peck), the    *)
(* last at -(total_depth + PENETRATION_MARGIN), and each peck is strictly  *)
(* deeper than the one before.                                             *)
(***************************************************************************)
C9_PeckCycle ==
    call.fn = "generate_drill_toolpath" =>
        LET n == Len(result)
        IN  /\ IsCeil(n, call.total_depth, call.depth_per_peck)
            /\ \A i \in 1..n :
                   /\ result[i].pass_number = i
                   /\ result[i].path = <<call.center>>
                   /\ result[i].tabs = <<>>
            /\ \A i \in 1..(n - 1) :
                   result[i].z_depth = -(i * call.depth_per_peck)
            /\ result[n].z_depth = -(call.total_depth + PENETRATION_MARGIN_DRILL)
            /\ \A i \in 2..n : result[i].z_depth < result[i - 1].z_depth

\* A depth the peck does not divide, drilled in several pecks.
C9_Witness ==
    /\ call.fn = "generate_drill_toolpath"
    /\ call.total_depth % call.depth_per_peck # 0
    /\ Len(result) = 2
    /\ result[2].z_depth < result[1].z_depth

(***************************************************************************)
(* C10.  Given a stock template, auto_nesting returns exactly one          *)
(* PlacementItem per input part, fitting or not: as many placements as     *)
(* parts, the same set of object ids, and no object id twice.  While the   *)
(* loop runs, every part is either still to be nested or has exactly one   *)
(* placement.                                                              *)
(***************************************************************************)
NestingReturned ==
    /\ call.fn = "auto_nesting"
    /\ nesting.sorted_objects = <<>>

IdsOf(items) == {items[i].object_id : i \in 1..Len(items)}

C10_OnePlacementPerPart ==
    /\ (NestingReturned /\ Len(call.sheet.materials) > 0) =>
           /\ Len(result) = Len(call.objects)
           /\ IdsOf(result) = IdsOf(call.objects)
           /\ \A i, j \in 1..Len(result) :
                  result[i].object_id = result[j].object_id => i = j
    /\ (call.fn = "auto_nesting" /\ nesting.sorted_objects # <<>>) =>
           /\ Len(nesting.placements) + Len(nesting.sorted_objects)
                  = Len(call.objects)
           /\ IdsOf(nesting.placements) \cup IdsOf(nesting.sorted_objects)
                  = IdsOf(call.objects)

\* Three parts returned in another order than given: one that fits no
\* sheet, one placed at a rotation, and one on a second sheet.
C10_Witness ==
    /\ NestingReturned
    /\ Len(call.objects) = 3
    /\ Len(result) = 3
    /\ result[1].object_id # 1
    /\ \E i \in 1..3 :
           /\ BoxArea(call.objects[result[i].object_id]) = 900
           /\ result[i].sheet_id = 1
           /\ result[i].x_offset = 0
           /\ result[i].rotation = 0
    /\ \E i \in 1..3 : result[i].rotation = 45
    /\ \E i \in 1..3 : result[i].sheet_id = 2

(***************************************************************************)
(* C11.  At every point of auto_nesting's loop, and when it returns, the   *)
(* margin-buffered polygons recorded on one sheet are pairwise             *)
(* non-intersecting and each lies inside the sheet rectangle               *)
(* [0, width] x [0, depth].  (A part that fits no sheet is not recorded on *)
(* any, so this holds whether or not every part fits.)                     *)
(***************************************************************************)
C11_NoOverlapOnSheet ==
    call.fn = "auto_nesting" =>
        \A sid \in 1..Len(nesting.stocks) :
            LET placed == nesting.stocks[sid]
                template == call.sheet.materials[1]
            IN  /\ \A i \in 1..Len(placed) :
                       Contains(template.width, template.depth, placed[i])
                /\ \A i, j \in 1..Len(placed) :
                       i < j => ~Intersects(placed[i], placed[j])

\* Three parts that all fit, recorded on one sheet, one of them rotated.
C11_Witness ==
    /\ call.fn = "auto_nesting"
    /\ \A i \in 1..Len(call.objects) : BoxArea(call.objects[i]) < 900
    /\ \E sid \in 1..Len(nesting.stocks) :
           /\ Len(nesting.stocks[sid]) = 3
           /\ \E i \in 1..3 : nesting.stocks[sid][i].angle # 0

(***************************************************************************)
(* C12.  A part whose margin-buffered footprint is wider or higher than    *)
(* the sheet at each of the eight rotations is returned on sheet 1 at      *)
(* x_offset = 0, y_offset = 0, rotation = 0; auto_nesting returns all the  *)
(* same, and every part that does fit at some rotation is nested: it has   *)
(* its placement and its polygon is recorded on the sheet it names.        *)
(***************************************************************************)
\* The margin-buffered footprint of the object fits the template at some
\* rotation.
FitsSomeAngle(obj) ==
    LET part == ObjectPolygon(obj, Margin(call.tool_diameter, call.clearance))
        template == call.sheet.materials[1]
    IN  \E angle \in {0, 45, 90, 135, 180, 225, 270, 315} :
            /\ LessEq(PartW(part, angle), Num(template.width))
            /\ LessEq(PartH(part, angle), Num(template.depth))

C12_FallbackAtOrigin ==
    (NestingReturned /\ Len(call.sheet.materials) > 0) =>
        /\ \A i \in 1..Len(call.objects) :
               \E k \in 1..Len(result) :
                   /\ result[k].object_id = call.objects[i].object_id
                   /\ ~FitsSomeAngle(call.objects[i]) =>
                          /\ result[k].sheet_id = 1
                          /\ result[k].x_offset = 0
                          /\ result[k].y_offset = 0
                          /\ result[k].rotation = 0
                   /\ FitsSomeAngle(call.objects[i]) =>
                          /\ result[k].sheet_id <= Len(nesting.stocks)
                          /\ \E p \in 1..Len(nesting.stocks[result[k].sheet_id]) :
                                 LET poly == nesting.stocks[result[k].sheet_id][p]
                                 IN  /\ poly.x = result[k].x_offset
                                     /\ poly.y = result[k].y_offset
                                     /\ poly.angle = result[k].rotation

\* A part that fits no sheet, nested first, and two parts nested after it,
\* one of them on sheet 1 at the origin as well.
C12_Witness ==
    /\ NestingReturned
    /\ Len(result) = 3
    /\ ~FitsSomeAngle(call.objects[result[1].object_id])
    /\ FitsSomeAngle(call.objects[result[2].object_id])
    /\ FitsSomeAngle(call.objects[result[3].object_id])
    /\ result[2].sheet_id = 1
    /\ result[2].x_offset = 0
    /\ result[2].y_offset = 0
    /\ Len(nesting.stocks[1]) = 2

(***************************************************************************)
(* C13.  Every part that auto_nesting placed by fallback, because its      *)
(* margin-buffered footprint fits the sheet at none of the rotations, is   *)
(* named by a warning of the auto-nesting response.                        *)
(***************************************************************************)
C13_FallbackFlagged ==
    (NestingReturned /\ nesting.response # None) =>
        \A i \in 1..Len(call.objects) :
            (Len(call.sheet.materials) > 0 /\ ~FitsSomeAngle(call.objects[i])) =>
                \E w \in 1..Len(nesting.response.warnings) :
                    nesting.response.warnings[w] = call.objects[i].object_id

(***************************************************************************)
(* validate_placement_endpoint, main.py: the bounds check of each          *)
(* placement and the collision check of the placements of each sheet.      *)
(* Polygons are axis-parallel rectangles <<x0, y0, x1, y1>> in half        *)
(* millimetres (a quarter turn about the centre of the bounding box gives  *)
(* half-integer corners), with the radius of their round buffer; the       *)
(* placements of the model are rotated by multiples of 90 degrees.         *)
(***************************************************************************)
MaxPlacements == 3

\* dict.get(key), None when the key is missing
DictGet(d, key) == IF key \in DOMAIN d THEN d[key] ELSE None

BoundsWarningsMutant(placement, sheet_mat, bb) ==
    (IF placement.x_offset + bb.x > sheet_mat.width
     THEN <<[kind |-> "x_over", object_id |-> placement.object_id]>>
     ELSE <<>>)
    \o (IF placement.y_offset + bb.y > sheet_mat.depth
        THEN <<[kind |-> "y_over", object_id |-> placement.object_id]>>
        ELSE <<>>)

\* _validate_placement: one warning for each of the four conditions that
\* holds; a warning is its kind and the object id its text starts with.
BoundsWarnings(placement, sheet_mat, bb) ==
    (IF placement.x_offset + bb.x > sheet_mat.width
     THEN <<[kind |-> "x_over", object_id |-> placement.object_id]>>
     ELSE <<>>)
    \o (IF placement.y_offset + bb.y > sheet_mat.depth
        THEN <<[kind |-> "y_over", object_id |-> placement.object_id]>>
        ELSE <<>>)
    \o (IF placement.x_offset < 0
        THEN <<[kind |-> "x_negative", object_id |-> placement.object_id]>>
        ELSE <<>>)
    \o (IF placement.y_offset < 0
        THEN <<[kind |-> "y_negative", object_id |-> placement.object_id]>>
        ELSE <<>>)

\* "1. Bounds check per part": placements with an unknown material or
\* without a bounding box are passed over.
RECURSIVE AllBoundsWarnings(_, _)
AllBoundsWarnings(req, k) ==
    IF k > Len(req.placements) THEN <<>>
    ELSE LET p == req.placements[k]
             sheet_mat == MatLookup(req.sheet.materials, p.material_id)
             bb == DictGet(req.bounding_boxes, p.object_id)
         IN  (IF sheet_mat # None /\ bb # None
              THEN BoundsWarnings(p, sheet_mat, bb) ELSE <<>>)
             \o AllBoundsWarnings(req, k + 1)

\* A quarter turn, counter-clockwise, about (cx2 / 2, cy2 / 2).
QuarterTurn(rect, cx2, cy2) ==
    <<cx2 + cy2 - rect[4], cy2 - cx2 + rect[1],
      cx2 + cy2 - rect[2], cy2 - cx2 + rect[3]>>

\* rotate_polygon(poly, rotation, (cx, cy)) for the multiples of 90.
RECURSIVE RotatePolygon(_, _, _, _)
RotatePolygon(rect, rotation, cx2, cy2) ==
    IF rotation = 0 THEN rect
    ELSE RotatePolygon(QuarterTurn(rect, cx2, cy2), rotation - 90, cx2, cy2)

\* The polygon of a placement: the outline when it has three points or
\* more, else the bounding box at the origin; rotated about the centre of
\* the bounding box, buffered by tool_diameter / 2 when tool_diameter > 0,
\* translated to the offsets.
PlacementPoly(req, p, bb) ==
    LET outline == IF p.object_id \in DOMAIN req.outlines
                   THEN req.outlines[p.object_id] ELSE <<>>
        poly == IF Len(outline) >= 3 THEN Bounds(outline)
                ELSE <<0, 0, bb.x, bb.y>>
        rotated == RotatePolygon(<<2 * poly[1], 2 * poly[2],
                                   2 * poly[3], 2 * poly[4]>>,
                                 p.rotation, bb.x, bb.y)
    IN  [rect |-> <<rotated[1] + 2 * p.x_offset, rotated[2] + 2 * p.y_offset,
                    rotated[3] + 2 * p.x_offset, rotated[4] + 2 * p.y_offset>>,
         radius2 |-> IF req.tool_diameter > 0 THEN req.tool_diameter ELSE 0]

\* placement_polys: the placements that have a bounding box, each with its
\* polygon, in the order of the request.
RECURSIVE PlacementPolys(_, _)
PlacementPolys(req, k) ==
    IF k > Len(req.placements) THEN <<>>
    ELSE LET p == req.placements[k]
             bb == DictGet(req.bounding_boxes, p.object_id)
         IN  (IF bb = None THEN <<>>
              ELSE <<[p |-> p, poly |-> PlacementPoly(req, p, bb)]>>)
             \o PlacementPolys(req, k + 1)

\* a.intersects(b) of two round-buffered rectangles: the distance of the
\* rectangles is at most the sum of the radii; touching counts.
RoundedIntersects(a, b) ==
    LET gx == Max2(0, Max2(a.rect[1] - b.rect[3], b.rect[1] - a.rect[3]))
        gy == Max2(0, Max2(a.rect[2] - b.rect[4], b.rect[2] - a.rect[4]))
        reach == a.radius2 + b.radius2
    IN  gx * gx + gy * gy <= reach * reach

\* sorted(placement_polys, key=sheet_id)
SortedBySheet(items) ==
    SortedWith(items,
               [i \in 1..Len(items) |->
                   [j \in 1..Len(items) |->
                       items[i].p.sheet_id < items[j].p.sheet_id]])

SameGroupMutant(items, i, j) == TRUE

\* groupby: items i <= j of the sorted list are in one group when the sheet
\* id does not change from i to j.
SameGroup(items, i, j) ==
    \A k \in i..j : items[k].p.sheet_id = items[i].p.sheet_id

\* The loops over the groups and over i < j within a group: one warning for
\* each intersecting pair, in the order of the sorted list.
RECURSIVE CollisionWarnings(_, _, _)
CollisionWarnings(items, i, j) ==
    IF i > Len(items) THEN <<>>
    ELSE IF j > Len(items) THEN CollisionWarnings(items, i + 1, i + 2)
    ELSE (IF /\ SameGroup(items, i, j)
             /\ RoundedIntersects(items[i].poly, items[j].poly)
          THEN <<[kind |-> "collision",
                  object_id |-> items[i].p.object_id,
                  other_id |-> items[j].p.object_id]>>
          ELSE <<>>)
         \o CollisionWarnings(items, i, j + 1)

\* all_warnings
AllWarnings(req) ==
    AllBoundsWarnings(req, 1)
    \o (IF Len(req.placements) >= 2
        THEN CollisionWarnings(SortedBySheet(PlacementPolys(req, 1)), 1, 2)
        ELSE <<>>)

ValidatePlacementResponseMutant(all_warnings) ==
    [valid |-> TRUE, warnings |-> all_warnings]

\* ValidatePlacementResponse(valid=len(all_warnings) == 0, warnings=...)
ValidatePlacementResponse(all_warnings) ==
    [valid |-> Len(all_warnings) = 0, warnings |-> all_warnings]

\* Sheet, material, offsets and rotation of the placements of the model:
\* at the origin; turned and overlapping the first; on a second sheet; left
\* of the sheet; below the sheet; of an unknown material, a tool diameter
\* away from the first; at the far corner.
PlacementPicks ==
    {[sheet_id |-> 1, material_id |-> 1, x_offset |-> 0, y_offset |-> 0,
      rotation |-> 0],
     [sheet_id |-> 1, material_id |-> 1, x_offset |-> 3, y_offset |-> 0,
      rotation |-> 90],
     [sheet_id |-> 2, material_id |-> 1, x_offset |-> 0, y_offset |-> 0,
      rotation |-> 0],
     [sheet_id |-> 1, material_id |-> 1, x_offset |-> -1, y_offset |-> 0,
      rotation |-> 0],
     [sheet_id |-> 2, material_id |-> 1, x_offset |-> 0, y_offset |-> -1,
      rotation |-> 0],
     [sheet_id |-> 1, material_id |-> NoSuchMaterial, x_offset |-> 8,
      y_offset |-> 0, rotation |-> 0],
     [sheet_id |-> 1, material_id |-> 1, x_offset |-> 8, y_offset |-> 8,
      rotation |-> 270]}

\* PlacementItem: the k-th placement is of object k.
PlacementItems(picks) ==
    [k \in 1..Len(picks) |->
        [object_id |-> k, material_id |-> picks[k].material_id,
         sheet_id |-> picks[k].sheet_id, x_offset |-> picks[k].x_offset,
         y_offset |-> picks[k].y_offset, rotation |-> picks[k].rotation]]

\* The bounding box of object k: 6 x 2, 4 x 4 or 2 x 6.
BoxOf(k) ==
    IF k % 3 = 1 THEN [x |-> 6, y |-> 2]
    ELSE IF k % 3 = 2 THEN [x |-> 4, y |-> 4]
    ELSE [x |-> 2, y |-> 6]

\* ValidatePlacementRequest; bounding_boxes lacks the objects of unboxed,
\* outlines holds an outline of object 1 or nothing.
ValidatePlacementRequest(picks, unboxed, outlined, tool_diameter) ==
    [fn |-> "validate_placement",
     placements |-> PlacementItems(picks),
     sheet |-> [materials |-> <<SquareSheet>>],
     bounding_boxes |-> [k \in (1..Len(picks)) \ unboxed |-> BoxOf(k)],
     outlines |-> [k \in (IF outlined THEN {1} ELSE {}) |->
                      RectRing(<<1, 0, 5, 2>>)],
     tool_diameter |-> tool_diameter]

\* POST /api/validate-placement
ValidatePlacement ==
    /\ call = Idle
    /\ \E picks \in SeqUpTo(PlacementPicks, MaxPlacements),
          unboxed \in {{}, {2}}, outlined \in BOOLEAN,
          tool_diameter \in {0, 2} :
           /\ call' = ValidatePlacementRequest(picks, unboxed, outlined,
                                               tool_diameter)
           /\ result' = ValidatePlacementResponse(
                            AllWarnings(ValidatePlacementRequest(
                                picks, unboxed, outlined, tool_diameter)))
    /\ UNCHANGED <<history, nesting, llm, db>>

NextPlacement == ValidatePlacement \/ Reply

SpecPlacement == Init /\ [][NextPlacement]_vars

\* The collision warnings of the response that name the two objects.
CollisionsOf(a, b) ==
    {w \in 1..Len(result.warnings) :
        /\ result.warnings[w].kind = "collision"
        /\ {result.warnings[w].object_id, result.warnings[w].other_id}
               = {a, b}}

\* The bounds warnings of the response that name the object.
BoundsWarningsOf(a) ==
    {w \in 1..Len(result.warnings) :
        /\ result.warnings[w].kind # "collision"
        /\ result.warnings[w].object_id = a}

(***************************************************************************)
(* C14.  The placement validator always returns a response, and its valid  *)
(* is true exactly when its warning list is empty.                         *)
(***************************************************************************)
C14_ValidIffNoWarnings ==
    call.fn = "validate_placement" =>
        /\ DOMAIN result = {"valid", "warnings"}
        /\ result.valid = (Len(result.warnings) = 0)

\* A response with a bounds warning and a collision warning.
C14_Witness ==
    /\ call.fn = "validate_placement"
    /\ ~result.valid
    /\ \E w \in 1..Len(result.warnings) : result.warnings[w].kind = "collision"
    /\ \E w \in 1..Len(result.warnings) : result.warnings[w].kind = "x_over"

(***************************************************************************)
(* C15.  A placement whose material is in the sheet and whose bounding     *)
(* box is given gets a bounds warning if and only if x_offset + bb.x is    *)
(* over the sheet width, y_offset + bb.y is over the sheet depth, x_offset *)
(* is negative or y_offset is negative.                                    *)
(***************************************************************************)
C15_BoundsWarningIff ==
    call.fn = "validate_placement" =>
        \A k \in 1..Len(call.placements) :
            LET p == call.placements[k]
                known == {m \in 1..Len(call.sheet.materials) :
                             call.sheet.materials[m].material_id
                                 = p.material_id}
            IN  (known # {} /\ p.object_id \in DOMAIN call.bounding_boxes) =>
                    LET bb == call.bounding_boxes[p.object_id]
                    IN  (BoundsWarningsOf(p.object_id) # {})
                        <=> \/ \E m \in known :
                                  \/ p.x_offset + bb.x
                                         > call.sheet.materials[m].width
                                  \/ p.y_offset + bb.y
                                         > call.sheet.materials[m].depth
                            \/ p.x_offset < 0
                            \/ p.y_offset < 0

\* One placement warned only for its negative x offset, another that
\* reaches the sheet edge exactly and is not warned.
C15_Witness ==
    /\ call.fn = "validate_placement"
    /\ \E k \in 1..Len(call.placements) :
           /\ call.placements[k].x_offset < 0
           /\ call.placements[k].y_offset = 0
           /\ call.placements[k].material_id = 1
           /\ k \in DOMAIN call.bounding_boxes
           /\ call.placements[k].x_offset + call.bounding_boxes[k].x <= 12
           /\ call.placements[k].y_offset + call.bounding_boxes[k].y <= 12
           /\ BoundsWarningsOf(k) # {}
    /\ \E k \in 1..Len(call.placements) :
           /\ call.placements[k].material_id = 1
           /\ k \in DOMAIN call.bounding_boxes
           /\ call.placements[k].x_offset + call.bounding_boxes[k].x = 12
           /\ BoundsWarningsOf(k) = {}

(***************************************************************************)
(* C16.  The response holds exactly one collision warning for each pair of *)
(* placements that have the same sheet id and whose polygons (rotated,     *)
(* buffered by the tool radius, translated) intersect, and none for any    *)
(* other pair; with fewer than two placements it holds none.               *)
(***************************************************************************)
C16_OneWarningPerCollision ==
    call.fn = "validate_placement" =>
        /\ \A i, j \in 1..Len(call.placements) :
               i < j =>
                   LET p == call.placements[i]
                       q == call.placements[j]
                       collide ==
                           /\ p.sheet_id = q.sheet_id
                           /\ i \in DOMAIN call.bounding_boxes
                           /\ j \in DOMAIN call.bounding_boxes
                           /\ RoundedIntersects(
                                  PlacementPoly(call, p, call.bounding_boxes[i]),
                                  PlacementPoly(call, q, call.bounding_boxes[j]))
                   IN  Cardinality(CollisionsOf(p.object_id, q.object_id))
                           = IF collide THEN 1 ELSE 0
        /\ Len(call.placements) < 2 =>
               \A w \in 1..Len(result.warnings) :
                   result.warnings[w].kind # "collision"

\* Three placements: two that collide on sheet 1 and one at the same place
\* on sheet 2, which collides with neither.
C16_Witness ==
    /\ call.fn = "validate_placement"
    /\ Len(call.placements) = 3
    /\ call.placements[1].sheet_id = 1
    /\ call.placements[2].sheet_id = 2
    /\ call.placements[3].sheet_id = 1
    /\ call.placements[1].x_offset = call.placements[2].x_offset
    /\ call.placements[1].y_offset = call.placements[2].y_offset
    /\ DOMAIN call.bounding_boxes = {1, 2, 3}
    /\ Cardinality(CollisionsOf(1, 3)) = 1
    /\ CollisionsOf(1, 2) = {}
    /\ CollisionsOf(2, 3) = {}

(***************************************************************************)
(* SbpWriter.generate (sbp_writer.py), as main.py calls it from            *)
(* _generate_sbp_code.  A line of the program is its instruction and its   *)
(* arguments.  Toolpaths given to the writer have at least one pass and    *)
(* every pass at least one point.                                          *)
(***************************************************************************)
MaxToolpaths == 3

Line(op, args) == [op |-> op, args |-> args]

\* PostProcessorSettings(): safe_z 38.0 is 380 tenths.
PostProcessor == [safe_z |-> 380, tool_number |-> 3, warmup_pause |-> 2]

\* (1) header: unit declaration, unit guard, absolute mode.
WriterHeader ==
    <<Line("'SHOPBOT ROUTER FILE IN MM", <<>>),
      Line("IF %(25)=0 THEN GOTO UNIT_ERROR", <<>>),
      Line("SA", <<>>)>>

\* (2) tool select, spindle on, warm-up pause.
WriterToolSetup(post_processor, machining) ==
    <<Line("&Tool", <<post_processor.tool_number>>),
      Line("C9", <<>>),
      Line("TR", <<machining.spindle_speed>>),
      Line("C6", <<>>),
      Line("PAUSE", <<post_processor.warmup_pause>>)>>

\* (4) footer: spindle off, program end, unit-error label.
WriterFooter ==
    <<Line("C7", <<>>), Line("END", <<>>), Line("UNIT_ERROR:", <<>>)>>

\* The settings of a toolpath: its own snapshot, else the fallback.
SettingsOf(toolpath, machining) ==
    IF toolpath.settings = None THEN machining ELSE toolpath.settings

FeedOf(settings) == <<settings.feed_rate.xy, settings.feed_rate.z>>

SpeedLinesMutant(settings, last) ==
    <<Line("MS", FeedOf(settings))>>
    \o (IF last.jog # <<settings.jog_speed>>
        THEN <<Line("JS", <<settings.jog_speed>>)>> ELSE <<>>)

\* MS and JS, each only if it differs from the last one emitted.
SpeedLines(settings, last) ==
    (IF last.feed # FeedOf(settings)
     THEN <<Line("MS", FeedOf(settings))>> ELSE <<>>)
    \o (IF last.jog # <<settings.jog_speed>>
        THEN <<Line("JS", <<settings.jog_speed>>)>> ELSE <<>>)

\* The Z of vertex i (counted from 0) of a pass: the tab's inside a
\* TabSegment, else the depth of the pass.
VertexZ(pass, i) ==
    LET inside == {t \in 1..Len(pass.tabs) :
                      /\ pass.tabs[t].start_index <= i
                      /\ i <= pass.tabs[t].end_index}
    IN  IF inside = {} THEN pass.z_depth
        ELSE pass.tabs[CHOOSE t \in inside : \A u \in inside : t <= u].z_tab

\* One cutting move per vertex of the pass.
PassLines(pass) ==
    [i \in 1..Len(pass.path) |->
        Line("M3", <<pass.path[i][1], pass.path[i][2], VertexZ(pass, i - 1)>>)]

RECURSIVE AllPassLines(_, _)
AllPassLines(passes, k) ==
    IF k > Len(passes) THEN <<>>
    ELSE PassLines(passes[k]) \o AllPassLines(passes, k + 1)

ToolpathLinesMutant(toolpath, post_processor) ==
    AllPassLines(toolpath.passes, 1)
    \o <<Line("JZ", <<post_processor.safe_z>>),
         Line("J2", toolpath.passes[1].path[1])>>

\* Starting a toolpath: retract to safe Z, rapid jog to the first point of
\* the path, then the cutting moves of every pass.
ToolpathLines(toolpath, post_processor) ==
    <<Line("JZ", <<post_processor.safe_z>>),
      Line("J2", toolpath.passes[1].path[1])>>
    \o AllPassLines(toolpath.passes, 1)

\* (3) the toolpaths in sequence; last is the feed and the jog speed last
\* emitted over the whole program.
RECURSIVE WriteToolpaths(_, _, _, _, _)
WriteToolpaths(toolpaths, k, machining, post_processor, last) ==
    IF k > Len(toolpaths) THEN <<>>
    ELSE LET settings == SettingsOf(toolpaths[k], machining)
         IN  SpeedLines(settings, last)
             \o ToolpathLines(toolpaths[k], post_processor)
             \o WriteToolpaths(toolpaths, k + 1, machining, post_processor,
                               [feed |-> FeedOf(settings),
                                jog |-> <<settings.jog_speed>>])

\* SbpWriter(post_processor, machining, sheet).generate(toolpaths)
SbpGenerate(toolpaths, machining, post_processor) ==
    WriterHeader
    \o WriterToolSetup(post_processor, machining)
    \o WriteToolpaths(toolpaths, 1, machining, post_processor,
                      [feed |-> <<>>, jog |-> <<>>])
    \o WriterFooter

\* _generate_sbp_code: raises when there are no operations, else writes the
\* program with the settings of the first operation as the fallback.
GenerateSbpCode(toolpaths, operations, post_processor) ==
    IF Len(operations) = 0 THEN [raised |-> "No operations provided"]
    ELSE [raised |-> "",
          code |-> SbpGenerate(toolpaths, operations[1].settings,
                               post_processor)]

\* generate_sbp_endpoint: an exception becomes HTTP 500.
GenerateSbpResponse(req) ==
    LET made == GenerateSbpCode(req.toolpath_result.toolpaths, req.operations,
                                req.post_processor)
    IN  IF made.raised # ""
        THEN [status |-> 500, detail |-> made.raised]
        ELSE [status |-> 200, code |-> made.code, filename |-> "output.sbp",
              format |-> "sbp"]

\* MachiningSettings as the writer reads them: feed 75/25, 50/25 or 50/20.
WriterSettings(xy, z) ==
    [feed_rate |-> [xy |-> xy, z |-> z], jog_speed |-> 200,
     spindle_speed |-> 18000]

FeedPicks == {<<75, 25>>, <<50, 25>>, <<50, 20>>}

\* A toolpath of the writer's input: one pass, or two passes with a tab on
\* the second; with its own settings or without.
WriterToolpath(k, own, feed, deep) ==
    [operation_id |-> k,
     passes |->
         IF deep
         THEN <<[pass_number |-> 1, z_depth |-> 30,
                 path |-> << <<10 * k, 10>>, <<10 * k + 5, 10>>,
                             <<10 * k, 10>> >>,
                 tabs |-> <<>>],
                [pass_number |-> 2, z_depth |-> -PENETRATION_MARGIN,
                 path |-> << <<10 * k, 10>>, <<10 * k + 5, 10>>,
                             <<10 * k, 10>> >>,
                 tabs |-> <<[start_index |-> 1, end_index |-> 1,
                             z_tab |-> 27]>>]>>
         ELSE <<[pass_number |-> 1, z_depth |-> -PENETRATION_MARGIN,
                 path |-> << <<10 * k, 10>>, <<10 * k + 5, 10>> >>,
                 tabs |-> <<>>]>>,
     settings |-> IF own THEN WriterSettings(feed[1], feed[2]) ELSE None]

\* SbpGenRequest
SbpGenRequest(picks, fallbacks) ==
    [fn |-> "generate_sbp",
     toolpath_result |->
         [toolpaths |-> [k \in 1..Len(picks) |->
                            WriterToolpath(k, picks[k][1], picks[k][2],
                                           picks[k][3])]],
     operations |-> [k \in 1..Len(fallbacks) |->
                        [operation_id |-> k,
                         settings |-> WriterSettings(fallbacks[k][1],
                                                     fallbacks[k][2])]],
     post_processor |-> PostProcessor]

\* POST /api/generate-sbp
GenerateSbp ==
    /\ call = Idle
    /\ \E picks \in SeqUpTo(BOOLEAN \X FeedPicks \X BOOLEAN, MaxToolpaths),
          fallbacks \in {<<>>, << <<75, 25>> >>, << <<50, 20>>, <<75, 25>> >>} :
           /\ call' = SbpGenRequest(picks, fallbacks)
           /\ result' = GenerateSbpResponse(SbpGenRequest(picks, fallbacks))
    /\ UNCHANGED <<history, nesting, llm, db>>

\* SbpZipRequest: picks[i] is <<operation_id, order>> of an assignment;
\* object 1 and object 2 are placed on the sheets sheet1 and sheet2, or not
\* placed when that is 0.
SbpZipRequest(picks, sheet1, sheet2) ==
    [fn |-> "generate_sbp_zip",
     operations |-> [i \in 1..Len(picks) |->
                        [operation_id |-> picks[i][1], material_id |-> 1,
                         enabled |-> TRUE, settings |-> BaseSettings,
                         order |-> picks[i][2]]],
     detected_operations |-> Detected(TwoContours, 3),
     sheet |-> Sheet(4),
     placements |->
         (IF sheet1 = 0 THEN <<>>
          ELSE <<[object_id |-> 1, material_id |-> 1, sheet_id |-> sheet1,
                  x_offset |-> 0, y_offset |-> 0, rotation |-> 0]>>)
         \o (IF sheet2 = 0 THEN <<>>
             ELSE <<[object_id |-> 2, material_id |-> 1, sheet_id |-> sheet2,
                     x_offset |-> 5, y_offset |-> 0, rotation |-> 0]>>),
     post_processor |-> PostProcessor]

\* sheet_groups[sheet_id]
SheetPlacements(req, sheet_id) ==
    SelectSeq(req.placements, LAMBDA p : p.sheet_id = sheet_id)

\* filtered_ops: the assignments whose operation is of an object placed
\* on the sheet.
FilteredOps(req, sheet_placements) ==
    SelectSeq(req.operations,
              LAMBDA a :
                  LET op == OpLookup(req.detected_operations, a.operation_id)
                  IN  /\ op # None
                      /\ \E k \in 1..Len(sheet_placements) :
                             sheet_placements[k].object_id = op.object_id)

\* The toolpaths and the program of one sheet.
SheetProgram(req, sheet_placements, filtered_ops) ==
    LET made == GenerateToolpathFromOperationsResult(
                    Request(filtered_ops, req.detected_operations, req.sheet,
                            sheet_placements))
    IN  GenerateSbpCode([i \in 1..Len(made) |-> made[i].toolpath],
                        filtered_ops, req.post_processor)

\* The loop over sorted(sheet_groups.keys()): a sheet without operations is
\* passed over, any other gets its file in the archive.
RECURSIVE ZipEntries(_, _)
ZipEntries(req, sheet_ids) ==
    IF sheet_ids = {} THEN <<>>
    ELSE LET sheet_id == MinOf(sheet_ids)
             sheet_placements == SheetPlacements(req, sheet_id)
             filtered_ops == FilteredOps(req, sheet_placements)
         IN  (IF Len(filtered_ops) = 0 THEN <<>>
              ELSE <<[name |-> sheet_id,
                      made |-> SheetProgram(req, sheet_placements,
                                            filtered_ops)]>>)
             \o ZipEntries(req, sheet_ids \ {sheet_id})

\* generate_sbp_zip_endpoint: the archive, or the error of an exception
\* that _generate_sbp_code raised.
GenerateSbpZipResponse(req) ==
    LET entries == ZipEntries(req, {req.placements[k].sheet_id :
                                       k \in 1..Len(req.placements)})
    IN  IF \E k \in 1..Len(entries) : entries[k].made.raised # ""
        THEN [status |-> 500, detail |-> "Internal Server Error"]
        ELSE [status |-> 200,
              zip |-> [k \in 1..Len(entries) |->
                          [name |-> entries[k].name,
                           code |-> entries[k].made.code]]]

\* POST /api/generate-sbp-zip
GenerateSbpZip ==
    /\ call = Idle
    /\ \E picks \in SeqUpTo(OrderPicks, MaxAssignments),
          sheet1 \in 0..2, sheet2 \in 0..2 :
           /\ call' = SbpZipRequest(picks, sheet1, sheet2)
           /\ result' = GenerateSbpZipResponse(
                            SbpZipRequest(picks, sheet1, sheet2))
    /\ UNCHANGED <<history, nesting, llm, db>>

NextWriter == GenerateSbp \/ GenerateSbpZip \/ Reply

SpecWriter == Init /\ [][NextWriter]_vars

\* The program was written.
Written == call.fn = "generate_sbp" /\ result.status = 200

\* The positions of the lines with the instruction.
LinesWith(op) == {i \in 1..Len(result.code) : result.code[i].op = op}

\* The feed values toolpath k is cut with.
FeedAt(k) ==
    FeedOf(SettingsOf(call.toolpath_result.toolpaths[k],
                      call.operations[1].settings))

\* The toolpaths whose feed values differ from those of the toolpath before.
FeedChanges ==
    {k \in 1..Len(call.toolpath_result.toolpaths) :
        k = 1 \/ FeedAt(k) # FeedAt(k - 1)}

\* The number of cutting moves of toolpath k.
MovesOf(k) ==
    LET passes == call.toolpath_result.toolpaths[k].passes
        Sum[i \in 0..Len(passes)] ==
            IF i = 0 THEN 0 ELSE Sum[i - 1] + Len(passes[i].path)
    IN  Sum[Len(passes)]

(***************************************************************************)
(* C17.  Over the whole program the writer emits MS,<xy>,<z> only when the *)
(* feed values of a toolpath differ from the last emitted ones: there is   *)
(* one MS line for the first toolpath and one for each toolpath whose feed *)
(* values differ from those of the toolpath before it, in that order and   *)
(* with those values; toolpaths that share their settings yield one line.  *)
(***************************************************************************)
C17_FeedEmittedOnChange ==
    Written =>
        /\ Cardinality(LinesWith("MS")) = Cardinality(FeedChanges)
        /\ \A k \in FeedChanges :
               \E i \in LinesWith("MS") :
                   /\ result.code[i].args = FeedAt(k)
                   /\ Cardinality({j \in LinesWith("MS") : j < i})
                          = Cardinality({c \in FeedChanges : c < k})

\* Three toolpaths: the first two share their feed values, the third has
\* others; two MS lines.
C17_Witness ==
    /\ Written
    /\ Len(call.toolpath_result.toolpaths) = 3
    /\ FeedAt(1) = FeedAt(2)
    /\ FeedAt(2) # FeedAt(3)
    /\ Cardinality(LinesWith("MS")) = 2

(***************************************************************************)
(* C18.  The program is the header (unit declaration, unit guard), then    *)
(* tool select, spindle on and warm-up pause, then the toolpaths in input  *)
(* order, then the footer (C7, END, UNIT_ERROR:); each toolpath starts     *)
(* with a retract JZ to safe Z and a rapid jog J2 to its first point, and  *)
(* all its cutting moves M3 follow them.                                   *)
(***************************************************************************)
C18_EmissionOrder ==
    Written =>
        LET code == result.code
            n == Len(code)
            toolpaths == call.toolpath_result.toolpaths
            Jog(k) == CHOOSE i \in LinesWith("J2") :
                          Cardinality({j \in LinesWith("J2") : j < i}) = k - 1
        IN  /\ code[1].op = "'SHOPBOT ROUTER FILE IN MM"
            /\ code[2].op = "IF %(25)=0 THEN GOTO UNIT_ERROR"
            /\ LinesWith("&Tool") \cup LinesWith("C9") \cup LinesWith("PAUSE")
                   \subseteq 3..8
            /\ \A a \in LinesWith("&Tool"), b \in LinesWith("C9"),
                  c \in LinesWith("PAUSE") : a < b /\ b < c
            /\ LinesWith("&Tool") # {} /\ LinesWith("C9") # {}
            /\ LinesWith("PAUSE") # {}
            /\ \A i \in LinesWith("MS") \cup LinesWith("JS") \cup LinesWith("JZ")
                      \cup LinesWith("J2") \cup LinesWith("M3") :
                   /\ \A c \in LinesWith("PAUSE") : c < i
                   /\ i < n - 2
            /\ code[n - 2].op = "C7"
            /\ code[n - 1].op = "END"
            /\ code[n].op = "UNIT_ERROR:"
            /\ Cardinality(LinesWith("J2")) = Len(toolpaths)
            /\ \A k \in 1..Len(toolpaths) :
                   /\ code[Jog(k)].args = toolpaths[k].passes[1].path[1]
                   /\ code[Jog(k) - 1].op = "JZ"
                   /\ code[Jog(k) - 1].args = <<call.post_processor.safe_z>>
                   /\ \A m \in 1..MovesOf(k) : code[Jog(k) + m].op = "M3"
                   /\ code[Jog(k) + MovesOf(k) + 1].op # "M3"

\* Two toolpaths with different feed values, the second of two passes.
C18_Witness ==
    /\ Written
    /\ Len(call.toolpath_result.toolpaths) = 2
    /\ FeedAt(1) # FeedAt(2)
    /\ Len(call.toolpath_result.toolpaths[2].passes) = 2
    /\ Cardinality(LinesWith("M3")) = 8

(***************************************************************************)
(* C19.  A request for machine code that supplies no operations fails as a *)
(* whole, with an error and no program, on the single-program path and on  *)
(* the per-sheet ZIP path.                                                 *)
(***************************************************************************)
C19_NoOperationsFails ==
    (call.fn \in {"generate_sbp", "generate_sbp_zip"}
        /\ Len(call.operations) = 0) =>
        result.status # 200

(***************************************************************************)
(* operation_detector.py: the features of a solid and their classes.       *)
(* Lengths are in hundredths of a millimetre.  The kernel's faces and      *)
(* cross-section differences are given: cylinder faces by radius and       *)
(* depth, planar regions by depth and area.                                *)
(***************************************************************************)
MaxFeatures == 2

TOLERANCE == 10

MIN_POCKET_AREA == 10

\* The cylindrical features of _analyze_features.
CylindricalFeatures(solid) ==
    [i \in 1..Len(solid.cylinders) |->
        [type |-> "cylindrical",
         radius |-> solid.cylinders[i].radius,
         depth |-> solid.cylinders[i].depth,
         is_through |->
             Abs(solid.cylinders[i].depth - solid.thickness) < TOLERANCE]]

\* The features of _detect_planar_pockets: regions under the minimum area
\* are dropped.
PlanarPockets(solid) ==
    LET kept == SelectSeq(solid.regions,
                          LAMBDA r : ~(r.area < MIN_POCKET_AREA))
    IN  [i \in 1..Len(kept) |->
            [type |-> "planar_pocket", depth |-> kept[i].depth,
             area |-> kept[i].area]]

\* _analyze_features: planar pockets are looked for only when no blind
\* cylindrical feature was found.
AnalyzeFeatures(solid) ==
    LET features == CylindricalFeatures(solid)
        has_cylindrical_pocket ==
            \E i \in 1..Len(features) : ~features[i].is_through
    IN  IF has_cylindrical_pocket THEN features
        ELSE features \o PlanarPockets(solid)

ClassifyFeatureMutant(feature, tool_diameter) ==
    IF feature.type = "planar_pocket" THEN "pocket"
    ELSE IF feature.type # "cylindrical" THEN "None"
    ELSE IF feature.is_through
         THEN (IF feature.radius * 2 < tool_diameter * 2 THEN "drill"
               ELSE "None")
         ELSE "pocket"

\* _classify_feature: "drill", "pocket" or None.
ClassifyFeature(feature, tool_diameter) ==
    IF feature.type = "planar_pocket" THEN "pocket"
    ELSE IF feature.type # "cylindrical" THEN "None"
    ELSE IF feature.is_through
         THEN (IF feature.radius * 2 <= tool_diameter * 2 THEN "drill"
               ELSE "None")
         ELSE "pocket"

\* The cylinder faces of the model, of a solid 10 mm thick: radius 2 mm,
\* 6 mm and 6.01 mm; through, 0.09 mm and 0.1 mm short of it, and 4 mm deep.
CylinderFaces == [radius : {200, 600, 601}, depth : {1000, 991, 990, 400}]

\* A region under the minimum area and one over it.
PlanarRegions == [depth : {300}, area : {5, 50}]

\* 1. and 2. of detect_operations for one solid: its features, each with
\* its class.
ClassifiedFeatures(solid, tool_diameter) ==
    LET features == AnalyzeFeatures(solid)
    IN  [i \in 1..Len(features) |->
            [feature |-> features[i],
             op_type |-> ClassifyFeature(features[i], tool_diameter)]]

DetectFeatures ==
    /\ call = Idle
    /\ \E cylinders \in SeqUpTo(CylinderFaces, MaxFeatures),
          regions \in SeqUpTo(PlanarRegions, 1),
          tool_diameter \in {600, 635} :
           LET solid == [thickness |-> 1000, cylinders |-> cylinders,
                         regions |-> regions]
           IN  /\ call' = [fn |-> "detect_features", solid |-> solid,
                           tool_diameter |-> tool_diameter]
               /\ result' = ClassifiedFeatures(solid, tool_diameter)
    /\ UNCHANGED <<history, nesting, llm, db>>

MaxSolids == 2

MaxObjectIds == 2

\* int() of the index part of an object id; None where int raises
\* ValueError.
IntOf(part) ==
    CASE part = "000" -> [value |-> 0]
      [] part = "001" -> [value |-> 1]
      [] part = "002" -> [value |-> 2]
      [] part = "003" -> [value |-> 3]
      [] OTHER -> None

\* idx of detect_operations, int(object_id.split("_")[1]) - 1, an object id
\* being the sequence of its parts between underscores; None where the
\* code continues to the next object (IndexError, ValueError, idx out of
\* range).
ObjectIndex(object_id, solids) ==
    IF Len(object_id) < 2 THEN None
    ELSE IF IntOf(object_id[2]) = None THEN None
    ELSE LET idx == IntOf(object_id[2]).value - 1
         IN  IF idx < 0 \/ idx >= Len(solids) THEN None
             ELSE [value |-> idx]

ValueError == [raised |-> TRUE, error |-> "ValueError"]

\* _section_at_z: the wires at z, else those at z + 0.001, else ValueError.
SectionAtZ(solid) ==
    IF solid.section # <<>>
    THEN [raised |-> FALSE, wires |-> solid.section]
    ELSE IF solid.section_retry # <<>>
         THEN [raised |-> FALSE, wires |-> solid.section_retry]
         ELSE ValueError

\* _wires_to_polygons: wires of fewer than three vertices and invalid
\* polygons are dropped.
WiresToPolygons(wires) ==
    LET kept == SelectSeq(wires, LAMBDA w : ~(w.vertices < 3) /\ w.valid)
    IN  [i \in 1..Len(kept) |-> kept[i].box]

\* _apply_offset on rectangles <<w, h>> in units of 0.005 mm, where half
\* the tool diameter is tool_diameter: a mitre buffer outwards or inwards,
\* empty results dropped.
ApplyOffset(polygons, tool_diameter, offset_side) ==
    LET d == IF offset_side = "inside" THEN -tool_diameter ELSE tool_diameter
        grown == [i \in 1..Len(polygons) |->
                     <<polygons[i][1] + 2 * d, polygons[i][2] + 2 * d>>]
    IN  SelectSeq(grown, LAMBDA b : b[1] > 0 /\ b[2] > 0)

\* extract_contours: the section of the FIRST solid of the file at its
\* bottom face, whatever object_id is.
ExtractContours(solids, object_id, tool_diameter, offset_side) ==
    IF solids = <<>> THEN ValueError
    ELSE LET solid == solids[1]
             wires == SectionAtZ(solid)
         IN  IF wires.raised THEN ValueError
             ELSE LET raw_contours == WiresToPolygons(wires.wires)
                      plain == offset_side = "none" \/ tool_diameter = 0
                      offset_contours ==
                          IF plain THEN raw_contours
                          ELSE ApplyOffset(raw_contours, tool_diameter,
                                           offset_side)
                  IN  [raised |-> FALSE,
                       object_id |-> object_id,
                       thickness |-> solid.thickness,
                       contours |->
                           [i \in 1..Len(offset_contours) |->
                               [id |-> i, type |-> "exterior",
                                coords |-> offset_contours[i],
                                closed |-> TRUE]],
                       offset_applied |->
                           IF plain THEN [distance |-> 0, side |-> "none"]
                           ELSE [distance |-> tool_diameter,
                                 side |-> offset_side]]

\* _extract_pocket_contour: None for a planar pocket without a polygon.
ExtractPocketContour(feature, counter) ==
    IF feature.type = "planar_pocket" /\ feature.area = 0 THEN None
    ELSE [id |-> counter, type |-> "pocket", closed |-> TRUE]

\* 2. of detect_operations for one object: the drill and pocket operations
\* of its features; feature k takes the number op_counter + k whether or
\* not an operation is made of it.
FeatureOperations(solid, object_id, tool_diameter, op_counter) ==
    LET classified == ClassifiedFeatures(solid, tool_diameter)
        OpOf(k) ==
            LET feature == classified[k].feature
                op_type == classified[k].op_type
                counter == op_counter + k
            IN  IF op_type = "drill"
                THEN [operation_id |-> counter, object_id |-> object_id,
                      operation_type |-> "drill",
                      geometry |->
                          [contours |-> <<[id |-> counter,
                                           type |-> "drill_center",
                                           closed |-> FALSE]>>,
                           offset_applied |->
                               [distance |-> 0, side |-> "none"],
                           depth |-> feature.depth]]
                ELSE IF op_type = "pocket"
                          /\ ExtractPocketContour(feature, counter) # None
                THEN [operation_id |-> counter, object_id |-> object_id,
                      operation_type |-> "pocket",
                      geometry |->
                          [contours |->
                               <<ExtractPocketContour(feature, counter)>>,
                           offset_applied |->
                               [distance |-> 0, side |-> "none"],
                           depth |-> feature.depth]]
                ELSE None
        all == [k \in 1..Len(classified) |-> OpOf(k)]
    IN  SelectSeq(all, LAMBDA op : op # None)

\* The loop of detect_operations from the i-th requested object on.
RECURSIVE DetectFrom(_, _, _, _, _, _, _)
DetectFrom(solids, object_ids, i, tool_diameter, offset_side, operations, op_counter) ==
    IF i > Len(object_ids)
    THEN [raised |-> FALSE, operations |-> operations]
    ELSE LET object_id == object_ids[i]
             idx == ObjectIndex(object_id, solids)
         IN  IF idx = None
             THEN DetectFrom(solids, object_ids, i + 1, tool_diameter,
                             offset_side, operations, op_counter)
             ELSE LET solid == solids[idx.value + 1]
                      features == AnalyzeFeatures(solid)
                      feature_ops ==
                          FeatureOperations(solid, object_id, tool_diameter,
                                            op_counter)
                      counter == op_counter + Len(features)
                      contour_result ==
                          ExtractContours(solids, object_id, tool_diameter,
                                          offset_side)
                  IN  IF contour_result.raised THEN ValueError
                      ELSE DetectFrom(
                               solids, object_ids, i + 1, tool_diameter,
                               offset_side,
                               operations \o feature_ops \o
                                   <<[operation_id |-> counter + 1,
                                      object_id |-> object_id,
                                      operation_type |-> "contour",
                                      geometry |->
                                          [contours |->
                                               contour_result.contours,
                                           offset_applied |->
                                               contour_result.offset_applied,
                                           depth |-> solid.thickness]]>>,
                               counter + 1)

\* detect_operations.
DetectOperationsResult(solids, object_ids, tool_diameter, offset_side) ==
    DetectFrom(solids, object_ids, 1, tool_diameter, offset_side, <<>>, 0)

\* The solids of the model, each with its own thickness and outline: a
\* plain panel; a panel with a drill hole, a wide through-hole and a planar
\* pocket, whose section has a degenerate wire too and is found only at the
\* retry height; a solid with no cross-section at all; a solid whose only
\* wire is degenerate.
Wire(vertices, w, h) == [vertices |-> vertices, valid |-> TRUE, box |-> <<w, h>>]

SolidKinds ==
    {[thickness |-> 1000, cylinders |-> <<>>, regions |-> <<>>,
      section |-> <<Wire(4, 20000, 10000)>>, section_retry |-> <<>>],
     [thickness |-> 1800,
      cylinders |-> <<[radius |-> 200, depth |-> 1800],
                      [radius |-> 3000, depth |-> 1800]>>,
      regions |-> <<[depth |-> 300, area |-> 50]>>,
      section |-> <<>>,
      section_retry |-> <<Wire(2, 10, 10), Wire(4, 12000, 12000)>>],
     [thickness |-> 1200, cylinders |-> <<>>, regions |-> <<>>,
      section |-> <<>>, section_retry |-> <<>>],
     [thickness |-> 900, cylinders |-> <<>>, regions |-> <<>>,
      section |-> <<Wire(2, 10, 10)>>, section_retry |-> <<>>]}

\* Object ids: of the first three objects, of object 0, with a part that is
\* no number, and without an index part.
ObjectIds ==
    {<<"obj", "001">>, <<"obj", "002">>, <<"obj", "003">>, <<"obj", "000">>,
     <<"obj", "x">>, <<"obj">>}

DetectOperations ==
    /\ call = Idle
    /\ \E n \in 1..MaxSolids, m \in 0..MaxObjectIds :
       \E solids \in [1..n -> SolidKinds], object_ids \in [1..m -> ObjectIds],
          tool_diameter \in {600, 635},
          offset_side \in {"outside", "none"} :
           /\ call' = [fn |-> "detect_operations", solids |-> solids,
                       object_ids |-> object_ids,
                       tool_diameter |-> tool_diameter,
                       offset_side |-> offset_side]
           /\ result' = DetectOperationsResult(solids, object_ids,
                                               tool_diameter, offset_side)
    /\ UNCHANGED <<history, nesting, llm, db>>

NextDetector == DetectFeatures \/ DetectOperations \/ Reply

SpecDetector == Init /\ [][NextDetector]_vars

(***************************************************************************)
(* C20.  A cylindrical feature whose depth is within the tolerance of the  *)
(* solid's thickness (a through-hole) is classified drill if and only if   *)
(* its diameter is at most twice the tool diameter, and otherwise is given *)
(* no class (no drill and no pocket); a cylindrical feature whose depth is *)
(* short of the thickness by the tolerance or more, and every planar       *)
(* pocket feature, is classified pocket.                                   *)
(***************************************************************************)
C20_FeatureClass ==
    call.fn = "detect_features" =>
        \A i \in 1..Len(result) :
            LET f == result[i].feature
                op_type == result[i].op_type
            IN  /\ f.type = "planar_pocket" => op_type = "pocket"
                /\ f.type = "cylindrical" =>
                       IF Abs(f.depth - call.solid.thickness) < TOLERANCE
                       THEN /\ (op_type = "drill")
                                   <=> (2 * f.radius <= 2 * call.tool_diameter)
                            /\ op_type \in {"drill", "None"}
                       ELSE /\ f.depth < call.solid.thickness
                            /\ op_type = "pocket"

\* A through-hole of exactly twice the tool diameter, 0.09 mm short of the
\* thickness, is a drill; a wider one gets no class; a planar pocket is a
\* pocket.
C20_Witness ==
    /\ call.fn = "detect_features"
    /\ Len(result) = 3
    /\ result[1].feature.depth = 991
    /\ result[1].feature.radius = call.tool_diameter
    /\ result[1].op_type = "drill"
    /\ result[2].feature.radius > call.tool_diameter
    /\ result[2].op_type = "None"
    /\ result[3].feature.type = "planar_pocket"
    /\ result[3].op_type = "pocket"

\* The positions in the request of the objects that resolve to a solid.
Resolved ==
    {j \in 1..Len(call.object_ids) :
        ObjectIndex(call.object_ids[j], call.solids) # None}

\* The solid a requested object resolves to.
SolidOf(j) ==
    call.solids[ObjectIndex(call.object_ids[j], call.solids).value + 1]

\* A solid with a cross-section to cut.
HasSection(solid) == ~SectionAtZ(solid).raised

(***************************************************************************)
(* C21.  When a requested object has an empty cross-section, or an object  *)
(* id that cannot be parsed or is out of range, detect_operations does not *)
(* raise: it returns no operation for that object and returns the contour  *)
(* operation of every other requested object of the batch.                 *)
(***************************************************************************)
C21_BadObjectSkipped ==
    call.fn = "detect_operations" =>
        /\ ~result.raised
        /\ \A j \in 1..Len(call.object_ids) :
               LET object_id == call.object_ids[j]
                   ops == SelectSeq(result.operations,
                                    LAMBDA op : op.object_id = object_id)
                   good == \E k \in Resolved :
                               /\ call.object_ids[k] = object_id
                               /\ HasSection(SolidOf(k))
               IN  IF good
                   THEN \E i \in 1..Len(ops) :
                            ops[i].operation_type = "contour"
                   ELSE ops = <<>>

\* What extract_contours gives for a solid taken alone.
OwnContours(solid) ==
    ExtractContours(<<solid>>, <<>>, call.tool_diameter, call.offset_side)

(***************************************************************************)
(* C29.  For each requested object id that resolves to solid k, the        *)
(* contour operation emitted for it carries the contours and the offset    *)
(* extracted from solid k itself, never those of another solid; it comes   *)
(* after the drill and pocket operations of that object, and operation ids *)
(* are unique within the result.                                           *)
(***************************************************************************)
C29_ContourOfOwnSolid ==
    (call.fn = "detect_operations" /\ ~result.raised) =>
        LET ops == result.operations
        IN  /\ \A i \in 1..Len(ops) :
                   ops[i].operation_type = "contour" =>
                       LET idx == ObjectIndex(ops[i].object_id, call.solids)
                           own == OwnContours(call.solids[idx.value + 1])
                       IN  /\ idx # None
                           /\ ~own.raised
                           /\ ops[i].geometry.contours = own.contours
                           /\ ops[i].geometry.offset_applied
                                  = own.offset_applied
            /\ \A i \in 1..Len(ops) :
                   ops[i].operation_type # "contour" =>
                       /\ i < Len(ops)
                       /\ ops[i + 1].object_id = ops[i].object_id
            /\ \A i, j \in 1..Len(ops) :
                   ops[i].operation_id = ops[j].operation_id => i = j

\* Origin of the object of toolpath k, the offset and the rotation of its
\* placement (none: no offset, no rotation) and its bounding box.
OriginOf(k) == call.req.object_origins[OperationOf(k).object_id]

OffsetOf(k) ==
    IF PlacementOf(k) = None THEN <<0, 0>>
    ELSE <<PlacementOf(k).x_offset, PlacementOf(k).y_offset>>

RotationOf(k) == IF PlacementOf(k) = None THEN 0 ELSE PlacementOf(k).rotation

BoxOfObject(k) == call.req.bounding_boxes[OperationOf(k).object_id]

(***************************************************************************)
(* C22.  In generate_toolpath_from_operations, with placement rotation 0   *)
(* every pass of a contour toolpath has as its path the points of the      *)
(* input contour translated by placement offset - object origin, as many   *)
(* and in the same order.  With rotation 90, for a contour whose extent is *)
(* the object's bounding box (w x h at the origin), the extent of the path *)
(* is h wide and w high and keeps its centre at placement offset +         *)
(* (w / 2, h / 2): the pivot is the centre of the bounding box.            *)
(***************************************************************************)
C22_PlacementTransform ==
    FromOperations =>
        \A k \in ContourToolpaths :
            LET coords == InputContours(k)[history[k].contour].coords
                o == OriginOf(k)
                p == OffsetOf(k)
                w == BoxOfObject(k).x
                h == BoxOfObject(k).y
            IN  \A i \in 1..Len(result[k].passes) :
                    LET path == result[k].passes[i].path
                    IN  /\ RotationOf(k) = 0 =>
                               /\ Len(path) = Len(coords)
                               /\ \A j \in 1..Len(path) :
                                      path[j] = <<coords[j][1] + p[1] - o[1],
                                                  coords[j][2] + p[2] - o[2]>>
                        /\ (/\ RotationOf(k) = 90
                            /\ Bounds(coords)
                                   = <<o[1], o[2], o[1] + w, o[2] + h>>) =>
                               /\ Bounds(path)[3] - Bounds(path)[1] = h
                               /\ Bounds(path)[4] - Bounds(path)[2] = w
                               /\ Bounds(path)[1] + Bounds(path)[3]
                                      = 2 * p[1] + w
                               /\ Bounds(path)[2] + Bounds(path)[4]
                                      = 2 * p[2] + h

\* The 16 x 12 object away from the world origin, placed at (10, 20) and
\* turned by 90 degrees: its path spans 12 x 16 around (18, 26).
C22_Witness ==
    /\ FromOperations
    /\ \E k \in ContourToolpaths :
           /\ OriginOf(k) = <<3, 7>>
           /\ OffsetOf(k) = <<10, 20>>
           /\ RotationOf(k) = 90
           /\ Len(result[k].passes) > 0
           /\ Bounds(result[k].passes[1].path) = <<12, 18, 24, 34>>

(***************************************************************************)
(* llm_client.py: LLMClient.generate_and_execute.  A code is the number of *)
(* the LLM call that wrote it; every LLM call and every execution is an    *)
(* await and may fail.                                                     *)
(***************************************************************************)
ExhaustedMutant(attempt, retries) == attempt > retries

\* "if attempt >= retries: break"
Exhausted(attempt, retries) == attempt >= retries

\* "retries = max_retries if max_retries is not None else self.max_retries",
\* then the call of generate or generate_with_history is awaited.
GenerateAndExecute ==
    /\ llm.pc = "idle"
    /\ \E given \in BOOLEAN, max_retries \in 0..MaxRetries,
          self_max_retries \in 0..MaxRetries,
          messages \in {<<>>, <<[role |-> "user", content |-> "earlier"]>>} :
           llm' = [LlmIdle EXCEPT
                       !.pc = "generate",
                       !.max_retries = IF given THEN [value |-> max_retries]
                                       ELSE None,
                       !.self_max_retries = self_max_retries,
                       !.retries = IF given THEN max_retries
                                   ELSE self_max_retries,
                       !.retry_messages = messages]
    /\ UNCHANGED <<call, result, history, nesting, db>>

\* The initial generation answers: retry_messages is made and the loop is
\* entered; or the LLM call raises.
InitialGeneration ==
    /\ llm.pc = "generate"
    /\ \E answered \in BOOLEAN :
           llm' = IF answered
                  THEN [llm EXCEPT
                            !.pc = "execute",
                            !.code = 1,
                            !.llm_calls = 1,
                            !.retry_messages =
                                (IF llm.retry_messages = <<>>
                                 THEN <<[role |-> "user",
                                         content |-> "prompt"]>>
                                 ELSE llm.retry_messages)
                                \o <<[role |-> "assistant", content |-> 1]>>]
                  ELSE [llm EXCEPT
                            !.pc = "failed",
                            !.llm_calls = 1,
                            !.outcome = [raised |-> "LLM error"]]
    /\ UNCHANGED <<call, result, history, nesting, db>>

\* One iteration of "for attempt in range(1 + retries)" up to its return,
\* its break or its await; after the last iteration, "raise last_error".
Execute ==
    /\ llm.pc = "execute"
    /\ IF llm.attempt < 1 + llm.retries
       THEN \E succeeded \in BOOLEAN :
                LET e == [attempt |-> llm.attempt, code |-> llm.code]
                IN  llm' =
                        IF succeeded
                        THEN [llm EXCEPT
                                  !.pc = "returned",
                                  !.executions = @ + 1,
                                  !.outcome = [returned |-> llm.code]]
                        ELSE IF Exhausted(llm.attempt, llm.retries)
                        THEN [llm EXCEPT
                                  !.pc = "raised",
                                  !.executions = @ + 1,
                                  !.errors = Append(@, e),
                                  !.outcome = [raised |-> e]]
                        ELSE [llm EXCEPT
                                  !.pc = "regenerate",
                                  !.executions = @ + 1,
                                  !.errors = Append(@, e),
                                  !.retry_messages =
                                      Append(@, [role |-> "user",
                                                 content |-> e])]
       ELSE llm' = [llm EXCEPT
                        !.pc = "raised",
                        !.outcome =
                            [raised |-> llm.errors[Len(llm.errors)]]]
    /\ UNCHANGED <<call, result, history, nesting, db>>

\* "code = await self.generate_with_history(retry_messages, ...)" answers,
\* and the next iteration begins; or the LLM call raises.
Regenerate ==
    /\ llm.pc = "regenerate"
    /\ \E answered \in BOOLEAN :
           llm' = IF answered
                  THEN [llm EXCEPT
                            !.pc = "execute",
                            !.attempt = @ + 1,
                            !.code = llm.llm_calls + 1,
                            !.llm_calls = @ + 1,
                            !.retry_messages =
                                Append(@, [role |-> "assistant",
                                           content |-> llm.llm_calls + 1])]
                  ELSE [llm EXCEPT
                            !.pc = "failed",
                            !.llm_calls = @ + 1,
                            !.outcome = [raised |-> "LLM error"]]
    /\ UNCHANGED <<call, result, history, nesting, db>>

\* The caller has the result or the exception.
LlmDone ==
    /\ llm.pc \in {"returned", "raised", "failed"}
    /\ llm' = LlmIdle
    /\ UNCHANGED <<call, result, history, nesting, db>>

NextLlm ==
    GenerateAndExecute \/ InitialGeneration \/ Execute \/ Regenerate \/ LlmDone

SpecLlm == Init /\ [][NextLlm]_vars

(***************************************************************************)
(* C23.  generate_and_execute executes generated code at most              *)
(* 1 + max_retries times and calls the LLM at most 1 + max_retries times.  *)
(* It returns at the first successful execution, with the code executed    *)
(* and without any further LLM call; when every attempt fails it raises    *)
(* the CodeExecutionError of the last attempt; with max_retries = 0        *)
(* exactly one LLM call is made.                                           *)
(***************************************************************************)
C23_RetryBudget ==
    llm.pc # "idle" =>
        /\ llm.executions <= 1 + llm.retries
        /\ llm.llm_calls <= 1 + llm.retries
        /\ llm.pc = "returned" =>
               /\ Len(llm.errors) = llm.executions - 1
               /\ llm.llm_calls = llm.executions
               /\ llm.outcome = [returned |-> llm.llm_calls]
        /\ llm.pc = "raised" =>
               /\ llm.executions = 1 + llm.retries
               /\ Len(llm.errors) = llm.executions
               /\ llm.llm_calls = 1 + llm.retries
               /\ llm.outcome =
                      [raised |-> [attempt |-> llm.retries,
                                   code |-> llm.llm_calls]]
        /\ (llm.retries = 0 /\ llm.pc \in {"returned", "raised", "failed"}) =>
               llm.llm_calls = 1

\* Every attempt has failed with two retries allowed: three executions,
\* three LLM calls, and the error of the third code is raised.
C23_Witness ==
    /\ llm.pc = "raised"
    /\ llm.retries = MaxRetries
    /\ llm.executions = MaxRetries + 1
    /\ llm.llm_calls = MaxRetries + 1
    /\ llm.outcome.raised.code = MaxRetries + 1

(***************************************************************************)
(* main.py: _get_db and _get_snippets_db, and db.py: GenerationDB.init and *)
(* SnippetsDB.init.  The requests are coroutines of one event loop: what   *)
(* runs between two awaits is one step, and at an await any other request  *)
(* may run.                                                                *)
(***************************************************************************)
\* GenerationDB(...) and SnippetsDB(...): "self._conn = None".
NewInstance == [conn |-> "None", schema |-> FALSE, initialised |-> FALSE]

\* The instance a request holds or initialises.
InstanceOf(p) == db.instances[db.task[p].database][db.task[p].handle]

\* The request goes on at pc, its instance changed to instance.
Advance(p, pc, instance) ==
    db' = [db EXCEPT
               !.task[p].pc = pc,
               !.instances[db.task[p].database][db.task[p].handle] = instance]

\* A handler calls _get_db or _get_snippets_db: "if _db is None", then
\* either "_db = GenerationDB(...)" and init() up to its first await, or
\* "return _db".
GetDb(p) ==
    /\ db.task[p].pc = "idle"
    /\ \E d \in Databases :
           db' = IF db.global[d] = 0
                 THEN [db EXCEPT
                           !.instances[d] = Append(@, NewInstance),
                           !.global[d] = Len(db.instances[d]) + 1,
                           !.task[p] = [TaskIdle EXCEPT
                                            !.pc = "connect",
                                            !.database = d,
                                            !.handle = Len(db.instances[d]) + 1]]
                 ELSE [db EXCEPT
                           !.task[p] = [TaskIdle EXCEPT
                                            !.pc = "returned",
                                            !.database = d,
                                            !.handle = db.global[d]]]
    /\ UNCHANGED <<call, result, history, nesting, llm>>

\* "self._conn = await aiosqlite.connect(self._db_path)" has answered.
InitConnect(p) ==
    /\ db.task[p].pc = "connect"
    /\ Advance(p, "schema", [InstanceOf(p) EXCEPT !.conn = "open"])
    /\ UNCHANGED <<call, result, history, nesting, llm>>

\* "await self._conn.executescript(...)" and the migration have answered.
InitSchema(p) ==
    /\ db.task[p].pc = "schema"
    /\ Advance(p, "commit", [InstanceOf(p) EXCEPT !.schema = TRUE])
    /\ UNCHANGED <<call, result, history, nesting, llm>>

\* "await self._conn.commit()" has answered: init() returns and
\* the getter returns the handle.
InitCommit(p) ==
    /\ db.task[p].pc = "commit"
    /\ Advance(p, "returned", [InstanceOf(p) EXCEPT !.initialised = TRUE])
    /\ UNCHANGED <<call, result, history, nesting, llm>>

\* The handler uses the handle it was given: a query on self._conn.  On a
\* connection that is still None the attribute access fails; on one whose
\* tables may not be made yet the query fails or not.
UseHandle(p) ==
    /\ db.task[p].pc = "returned"
    /\ \E outcome \in {"ok", "AttributeError", "OperationalError"} :
           /\ outcome = "AttributeError" <=> InstanceOf(p).conn = "None"
           /\ outcome = "OperationalError" =>
                  InstanceOf(p).conn = "open" /\ ~InstanceOf(p).schema
           /\ db' = [db EXCEPT !.task[p].pc = "used",
                               !.task[p].outcome = outcome]
    /\ UNCHANGED <<call, result, history, nesting, llm>>

\* The request is answered.
Finish(p) ==
    /\ db.task[p].pc = "used"
    /\ db' = [db EXCEPT !.task[p] = TaskIdle]
    /\ UNCHANGED <<call, result, history, nesting, llm>>

NextDb ==
    \E p \in 1..MaxRequests :
        \/ GetDb(p)
        \/ InitConnect(p)
        \/ InitSchema(p)
        \/ InitCommit(p)
        \/ UseHandle(p)
        \/ Finish(p)

SpecDb == Init /\ [][NextDb]_vars

(***************************************************************************)
(* C30.  Under any interleaving of concurrent requests, _get_db and        *)
(* _get_snippets_db each create at most one instance, and every handle a   *)
(* request is given has completed init() before it is used.                *)
(***************************************************************************)
C30_SingletonSafe ==
    /\ \A d \in Databases : Len(db.instances[d]) <= 1
    /\ \A p \in 1..MaxRequests :
           /\ db.task[p].pc = "returned" => InstanceOf(p).initialised
           /\ db.task[p].pc = "used" => db.task[p].outcome = "ok"

\* The indices of the response's toolpaths that clear a pocket.
PocketToolpaths ==
    IF FromOperations
    THEN {k \in 1..Len(result) : OperationOf(k).operation_type = "pocket"}
    ELSE {}

\* The rings the pocket pattern of toolpath k's assignment gives for the
\* placed pocket outline.
PocketRingsOf(k) ==
    LET settings == AssignmentOf(k).settings
        pocket_coords ==
            TransformCoords(OperationOf(k).geometry.contours[1].coords,
                            RotationOf(k),
                            OriginOf(k)[1] + BoxOfObject(k).x \div 2,
                            OriginOf(k)[2] + BoxOfObject(k).y \div 2,
                            OffsetOf(k)[1] - OriginOf(k)[1],
                            OffsetOf(k)[2] - OriginOf(k)[2])
    IN  IF settings.pocket_pattern = "raster"
        THEN GeneratePocketRaster(Bounds(pocket_coords),
                                  settings.tool_diameter,
                                  settings.pocket_stepover2)
        ELSE GeneratePocketContourParallel(Bounds(pocket_coords),
                                           settings.tool_diameter,
                                           settings.pocket_stepover2)

(***************************************************************************)
(* C24.  A pocket operation whose pattern gives R rings, cut in            *)
(* L = ceil(depth / depth_per_pass) levels, has exactly L * R passes       *)
(* numbered 1..L * R, level by level and in ring order within a level:     *)
(* pass (l - 1) * R + r follows ring r at level l.  No pass has tabs;      *)
(* every level but the last is at depth - l * depth_per_pass and the last  *)
(* at -PENETRATION_MARGIN.                                                 *)
(***************************************************************************)
C24_PocketPasses ==
    \A k \in PocketToolpaths :
        LET rings == PocketRingsOf(k)
            R == Len(rings)
            depth == OperationOf(k).geometry.depth
            step == AssignmentOf(k).settings.depth_per_pass
            passes == result[k].passes
            L == Len(passes) \div Max2(R, 1)
        IN  /\ Len(passes) = L * R
            /\ R > 0 => IsCeil(L, depth, step)
            /\ \A l \in 1..L : \A r \in 1..R :
                   LET pass == passes[(l - 1) * R + r]
                   IN  /\ pass.pass_number = (l - 1) * R + r
                       /\ pass.path = rings[r]
                       /\ pass.tabs = <<>>
                       /\ pass.z_depth = IF l = L THEN -PENETRATION_MARGIN
                                         ELSE depth - l * step

\* A pocket of several rings cut in several levels whose rings differ.
C24_Witness ==
    \E k \in PocketToolpaths :
        /\ Len(PocketRingsOf(k)) >= 2
        /\ PocketRingsOf(k)[1] # PocketRingsOf(k)[2]
        /\ Len(result[k].passes) >= 3 * Len(PocketRingsOf(k))

(***************************************************************************)
(* C26.  All operation kinds share one Z datum: in every toolpath of       *)
(* generate_toolpath_from_operations, of a contour, a pocket or a drill    *)
(* operation, no pass has a z_depth below -PENETRATION_MARGIN and the last *)
(* pass is at exactly -PENETRATION_MARGIN.                                 *)
(***************************************************************************)
C26_SharedZDatum ==
    FromOperations =>
        \A k \in 1..Len(result) :
            LET passes == result[k].passes
                n == Len(passes)
            IN  /\ \A i \in 1..n : passes[i].z_depth >= -PENETRATION_MARGIN
                /\ n > 0 => passes[n].z_depth = -PENETRATION_MARGIN

(***************************************************************************)
(* C27.  Every TabSegment made by _compute_tabs indexes existing vertices  *)
(* of the path of its pass: 0 <= start_index <= end_index <=               *)
(* len(path) - 1, for every path, tab count and tab width, tab windows     *)
(* wider than the spacing of the sectors or than the whole path included.  *)
(***************************************************************************)
C27_TabIndicesInPath ==
    \A k \in ContourToolpaths :
        \A i \in 1..Len(result[k].passes) :
            LET pass == result[k].passes[i]
            IN  \A t \in 1..Len(pass.tabs) :
                    /\ 0 <= pass.tabs[t].start_index
                    /\ pass.tabs[t].start_index <= pass.tabs[t].end_index
                    /\ pass.tabs[t].end_index <= Len(pass.path) - 1

\* Two tabs on a path of five points whose window is wider than the whole
\* path: the first starts at the first vertex, the second ends at the last,
\* and they overlap.
C27_Witness ==
    \E k \in ContourToolpaths :
        \E i \in 1..Len(result[k].passes) :
            LET pass == result[k].passes[i]
            IN  /\ TabsOf(k).width = 13
                /\ Len(pass.path) = 5
                /\ Len(pass.tabs) = 2
                /\ pass.tabs[1].start_index = 0
                /\ pass.tabs[2].end_index = Len(pass.path) - 1
                /\ pass.tabs[2].start_index < pass.tabs[1].end_index

\* The request to the placement validator made of the placements
\* auto_nesting returned, with the bounding boxes, the outlines, the sheet
\* and the tool diameter of the nesting request.
ValidationOfNesting ==
    [placements |-> result,
     sheet |-> call.sheet,
     bounding_boxes |-> [o \in 1..Len(call.objects) |->
                            call.objects[o].bounding_box],
     outlines |-> [o \in 1..Len(call.objects) |-> call.objects[o].outline],
     tool_diameter |-> call.tool_diameter]

(***************************************************************************)
(* C28.  Nesting and validation agree: when every part fits the stock by   *)
(* itself, the placements auto_nesting returns, passed to the placement    *)
(* validator with the same bounding boxes, outlines and tool diameter,     *)
(* give no bounds warning, at whatever rotation a part was placed, and no  *)
(* collision warning.  (The collision check is evaluated for the results   *)
(* whose rotations are all multiples of 90 degrees.)                       *)
(***************************************************************************)
C28_NestingPassesValidation ==
    (/\ NestingReturned
     /\ Len(call.sheet.materials) > 0
     /\ \A i \in 1..Len(call.objects) : FitsSomeAngle(call.objects[i])) =>
        /\ AllBoundsWarnings(ValidationOfNesting, 1) = <<>>
        /\ (/\ Len(result) >= 2
            /\ \A k \in 1..Len(result) : result[k].rotation % 90 = 0) =>
               CollisionWarnings(
                   SortedBySheet(PlacementPolys(ValidationOfNesting, 1)),
                   1, 2) = <<>>

\* The grid positions 0, 5, 10, ... up to n.
GridUpTo(n) == {STEP * i : i \in 0..(n \div STEP)}

Angles == {0, 45, 90, 135, 180, 225, 270, 315}

\* The part may lie at (x, y) turned by angle on a sheet where the polygons
\* placed lie: inside the sheet and touching none of them.
Feasible(part, placed, template, angle, x, y) ==
    /\ Contains(template.width, template.depth,
                PositionPolygon(part, x, y, angle))
    /\ ~IntersectsAny(PositionPolygon(part, x, y, angle), placed)

\* The part has a feasible grid position on the sheet at one of the angles.
AnyFeasible(part, placed, template, angles) ==
    \E angle \in angles :
        \E y \in GridUpTo(template.depth), x \in GridUpTo(template.width) :
            Feasible(part, placed, template, angle, x, y)

(***************************************************************************)
(* C25.  The choice of auto_nesting.  Parts are taken in descending        *)
(* bounding-box area (equal areas in input order).  For each part that     *)
(* fits the stock the sheets are tried in creation order: it goes to the   *)
(* first sheet, existing or fresh, that has a feasible place, so to a      *)
(* fresh one only when every existing sheet has none.  On that sheet the   *)
(* smallest rotation of 0, 45, ..., 315 with a feasible grid position      *)
(* wins, and at that rotation the feasible position of the 5 mm grid with  *)
(* the smallest y and, among those, the smallest x.  (The placements are a *)
(* function of the request: the same input gives the same placements.)     *)
(***************************************************************************)
C25_BottomLeftChoice ==
    (/\ call.fn = "auto_nesting"
     /\ Len(nesting.placements) > 0
     /\ Len(call.sheet.materials) > 0) =>
        LET n == Len(nesting.placements)
            p == nesting.placements[n]
            template == call.sheet.materials[1]
            part == ObjectPolygon(call.objects[p.object_id],
                                  Margin(call.tool_diameter, call.clearance))
            Before(sid) ==
                IF sid = p.sheet_id
                THEN SubSeq(nesting.stocks[sid], 1,
                            Len(nesting.stocks[sid]) - 1)
                ELSE nesting.stocks[sid]
        IN  /\ \A k \in 1..(n - 1) :
                   LET a == call.objects[nesting.placements[k].object_id]
                       b == call.objects[nesting.placements[k + 1].object_id]
                   IN  \/ BoxArea(a) > BoxArea(b)
                       \/ BoxArea(a) = BoxArea(b) /\ a.object_id < b.object_id
            /\ FitsSomeAngle(call.objects[p.object_id]) =>
                   /\ p.sheet_id <= Len(nesting.stocks)
                   /\ nesting.stocks[p.sheet_id][Len(nesting.stocks[p.sheet_id])]
                          = PositionPolygon(part, p.x_offset, p.y_offset,
                                            p.rotation)
                   /\ Feasible(part, Before(p.sheet_id), template, p.rotation,
                               p.x_offset, p.y_offset)
                   /\ \A sid \in 1..(p.sheet_id - 1) :
                          ~AnyFeasible(part, Before(sid), template, Angles)
                   /\ ~AnyFeasible(part, Before(p.sheet_id), template,
                                   {angle \in Angles : angle < p.rotation})
                   /\ \A y \in GridUpTo(template.depth),
                         x \in GridUpTo(template.width) :
                          Feasible(part, Before(p.sheet_id), template,
                                   p.rotation, x, y) =>
                              \/ p.y_offset < y
                              \/ p.y_offset = y /\ p.x_offset <= x

\* Two long bars that fit the sheet only diagonally: the second finds no
\* place on sheet 1 and opens sheet 2.  The square nested after them goes
\* back to sheet 1, where it has no place unturned: it is turned by 45
\* degrees and lies beside the bar, at the leftmost free place of the
\* lowest row.
C25_Witness ==
    /\ call.fn = "auto_nesting"
    /\ Len(nesting.placements) = 3
    /\ nesting.placements[1].sheet_id = 1
    /\ nesting.placements[1].rotation = 45
    /\ nesting.placements[2].sheet_id = 2
    /\ nesting.placements[3].sheet_id = 1
    /\ nesting.placements[3].rotation = 45
    /\ nesting.placements[3].x_offset = STEP
    /\ nesting.placements[3].y_offset = 0

=============================================================================
